---- MODULE Spec2Model ----
(***************************************************************************)
(* The grid strategy engine of gridtrader: the persisted tables (strategy, *)
(* plan, level, order, trade pair) and the request handlers that change    *)
(* them (create plan, update strategy, trigger levels, fill order, cancel  *)
(* order, stop plan).                                                      *)
(*                                                                         *)
(* Numbers.  Every DecimalField is a fixed-point integer in the unit of    *)
(* its column: prices and quantities in 1/10^4, money in 1/10^2,           *)
(* percentages in 1/10^4 of a percent.  A value computed in memory is an   *)
(* exact Decimal; it is kept as an exact fraction (numerator, denominator) *)
(* of the column's unit and is rounded half-even (the Decimal context's    *)
(* default, applied by the ORM when a row is written) only when the row is *)
(* saved.  An object is never re-read after save(), so the handlers go on  *)
(* computing with the unrounded value, as the code does.                   *)
(***************************************************************************)
EXTENDS Integers, Sequences, FiniteSets, TLC

\* The five tables; last: the last request handled and its response (the
\* error it returned, the triggered_count of a trigger request); requests:
\* the requests being handled by the workers, each with the rows it has
\* loaded and its position in the handler; batch: the tables when the
\* requests now overlapping began, and the calls made since; simulations: the
\* table of simulation runs.
VARIABLES strategies, plans, levels, orders, pairs, last, requests, batch,
          simulations

vars == <<strategies, plans, levels, orders, pairs, last, requests, batch,
          simulations>>

\* ---------------------------------------------------------------- numbers

\* decimal_places of the price and quantity columns (10^4).
PriceScale == 10000
\* decimal_places = 2 of the money columns (10^2).
MoneyScale == 100
\* A percentage column holds 1/10^4 of a percent: value / PercentUnit is the
\* fraction the code gets from "x / 100".
PercentUnit == 1000000
\* price unit * quantity unit / money unit: an exact product of a stored price
\* and a stored quantity, counted in money units, has this denominator.
AmountDen == 1000000
\* A fund-ratio column (decimal_places = 2) holds 1/10^2 of a percent.
RatioUnit == 10000

\* A NULL column (sell_price, filled_price) and a NULL foreign key.
None == 0 - 1
NoOrder == 0

RECURSIVE GCD(_, _)
GCD(a, b) == IF b = 0 THEN a ELSE GCD(b, a % b)

Abs(x) == IF x < 0 THEN 0 - x ELSE x

\* The fraction n/d in lowest terms, d > 0.
Frac(n, d) == LET g == GCD(Abs(n), d) IN [n |-> n \div g, d |-> d \div g]

\* a/b * c/d with the cross factors cancelled before multiplying.
FracMul(x, y) ==
    LET a == Frac(x.n, y.d)
        b == Frac(y.n, x.d)
    IN  [n |-> a.n * b.n, d |-> a.d * b.d]

FracOfInt(k) == [n |-> k, d |-> 1]

FracLeq(x, y) == x.n * y.d <= y.n * x.d

\* x + y and x - y.
FracAdd(x, y) == Frac(x.n * y.d + y.n * x.d, x.d * y.d)

FracSub(x, y) == FracAdd(x, [n |-> 0 - y.n, d |-> y.d])

\* Decimal.quantize under ROUND_HALF_EVEN of (base + n/d), base an integer of
\* the target unit: what a save() writes for an in-memory "base + x".
RoundHalfEvenFrom(base, x) ==
    LET q == x.n \div x.d
        r == x.n % x.d
        w == base + q
    IN  IF 2 * r < x.d THEN w
        ELSE IF 2 * r > x.d THEN w + 1
        ELSE IF w % 2 = 0 THEN w ELSE w + 1

RoundHalfEven(x) == RoundHalfEvenFrom(0, x)

\* 1 + p/100 and 1 - p/100 for a percentage column p.
OnePlus(p) == Frac(PercentUnit + p, PercentUnit)
OneMinus(p) == Frac(PercentUnit - p, PercentUnit)

RECURSIVE FracPow(_, _)
FracPow(x, k) == IF k = 0 THEN FracOfInt(1) ELSE FracMul(x, FracPow(x, k - 1))

\* ------------------------------------------------------------ level ladder

\* The sizing with the increase counted from level start_increase_from_grid
\* itself.
CalculateInvestmentAmountFromStart(s, p, grid_index) ==
    IF s.progressive_investment /\ grid_index >= s.start_increase_from_grid
    THEN FracMul(FracOfInt(p.base_investment),
                 FracPow(OnePlus(s.investment_increase_percent),
                         grid_index - s.start_increase_from_grid))
    ELSE FracOfInt(p.base_investment)

\* GridPlan._calculate_investment_amount: the money put on the level at
\* distance grid_index, with progressive sizing (2.2) when enabled.
CalculateInvestmentAmount(s, p, grid_index) ==
    IF s.progressive_investment /\ grid_index >= s.start_increase_from_grid - 1
    THEN LET increase_times == grid_index - (s.start_increase_from_grid - 1)
             multiplier == FracPow(OnePlus(s.investment_increase_percent), increase_times)
         IN  FracMul(FracOfInt(p.base_investment), multiplier)
    ELSE FracOfInt(p.base_investment)

\* The dictionary one turn of either loop of _calculate_single_grid_levels
\* appends.
SingleLevelData(s, p, current_price, grid_index) ==
    [price |-> current_price,
     investment_amount |-> CalculateInvestmentAmount(s, p, Abs(grid_index)),
     grid_type |-> "single", grid_index |-> grid_index,
     sell_price |-> FracOfInt(None)]

\* The upward loop of _calculate_single_grid_levels: from current_price while
\* current_price <= max_price.
RECURSIVE SingleUp(_, _, _, _)
SingleUp(s, p, current_price, grid_index) ==
    IF ~FracLeq(current_price, FracOfInt(p.max_price)) THEN <<>>
    ELSE <<SingleLevelData(s, p, current_price, grid_index)>>
         \o SingleUp(s, p, FracMul(current_price, OnePlus(s.grid_interval_percent)),
                     grid_index + 1)

\* The downward loop: while current_price >= min_price.
RECURSIVE SingleDown(_, _, _, _)
SingleDown(s, p, current_price, grid_index) ==
    IF ~FracLeq(FracOfInt(p.min_price), current_price) THEN <<>>
    ELSE <<SingleLevelData(s, p, current_price, grid_index)>>
         \o SingleDown(s, p, FracMul(current_price, OneMinus(s.grid_interval_percent)),
                       grid_index - 1)

CalculateSingleGridLevels(s, p) ==
    SingleUp(s, p, FracOfInt(p.base_price), 0)
    \o SingleDown(s, p, FracMul(FracOfInt(p.base_price), OneMinus(s.grid_interval_percent)),
                  0 - 1)

\* _calculate_grid_for_type, upward loop; levels of a tier carry no grid_index
\* (create_grid_plan stores the default 0).
RECURSIVE TypeUp(_, _, _, _, _)
TypeUp(p, grid_type, percent, base_investment, current_price) ==
    IF ~FracLeq(current_price, FracOfInt(p.max_price)) THEN <<>>
    ELSE <<[price |-> current_price, investment_amount |-> base_investment,
            grid_type |-> grid_type, grid_index |-> 0,
            sell_price |-> FracMul(current_price, OnePlus(percent))]>>
         \o TypeUp(p, grid_type, percent, base_investment,
                   FracMul(current_price, OnePlus(percent)))

\* The downward loop with every sell price at price * (1 + percent).
RECURSIVE TypeDownPlain(_, _, _, _, _)
TypeDownPlain(p, grid_type, percent, base_investment, current_price) ==
    IF ~FracLeq(FracOfInt(p.min_price), current_price) THEN <<>>
    ELSE <<[price |-> current_price, investment_amount |-> base_investment,
            grid_type |-> grid_type, grid_index |-> 0,
            sell_price |-> FracMul(current_price, OnePlus(percent))]>>
         \o TypeDownPlain(p, grid_type, percent, base_investment,
                          FracMul(current_price, OneMinus(percent)))

\* _calculate_grid_for_type, downward loop: the first level below base sells
\* at base_price, the others at their own price * (1 + percent).
RECURSIVE TypeDown(_, _, _, _, _)
TypeDown(p, grid_type, percent, base_investment, current_price) ==
    IF ~FracLeq(FracOfInt(p.min_price), current_price) THEN <<>>
    ELSE <<[price |-> current_price, investment_amount |-> base_investment,
            grid_type |-> grid_type, grid_index |-> 0,
            sell_price |->
                IF current_price = FracMul(FracOfInt(p.base_price), OneMinus(percent))
                THEN FracOfInt(p.base_price)
                ELSE FracMul(current_price, OnePlus(percent))]>>
         \o TypeDown(p, grid_type, percent, base_investment,
                     FracMul(current_price, OneMinus(percent)))

CalculateGridForType(p, grid_type, percent, base_investment) ==
    TypeUp(p, grid_type, percent, base_investment, FracOfInt(p.base_price))
    \o TypeDown(p, grid_type, percent, base_investment,
                FracMul(FracOfInt(p.base_price), OneMinus(percent)))

\* base_investment * ratio / 100 for one tier (ratio counts 1/RatioUnit).
TierInvestment(p, ratio) == Frac(p.base_investment * ratio, RatioUnit)

CalculateMultiGridLevels(s, p) ==
    CalculateGridForType(p, "small", s.small_grid_percent,
                         TierInvestment(p, s.small_grid_ratio))
    \o CalculateGridForType(p, "medium", s.medium_grid_percent,
                            TierInvestment(p, s.medium_grid_ratio))
    \o CalculateGridForType(p, "large", s.large_grid_percent,
                            TierInvestment(p, s.large_grid_ratio))

\* sorted(levels, key=price): a stable sort, equal prices keep their order.
RECURSIVE InsertByPrice(_, _)
\* The list in the order the loops appended it, without the sort.
AsGenerated(seq) == seq

InsertByPrice(sorted, x) ==
    IF sorted = <<>> THEN <<x>>
    ELSE LET lastOne == sorted[Len(sorted)]
         IN  IF FracLeq(lastOne.price, x.price) THEN Append(sorted, x)
             ELSE Append(InsertByPrice(SubSeq(sorted, 1, Len(sorted) - 1), x), lastOne)

RECURSIVE SortedByPrice(_)
SortedByPrice(seq) ==
    IF seq = <<>> THEN <<>>
    ELSE InsertByPrice(SortedByPrice(SubSeq(seq, 1, Len(seq) - 1)), seq[Len(seq)])

CalculateGridLevels(s, p) ==
    SortedByPrice(IF s.multi_grid THEN CalculateMultiGridLevels(s, p)
                  ELSE CalculateSingleGridLevels(s, p))

\* ------------------------------------------------------------------ tables

\* The database: one sequence per table, a row's primary key is its index.
DB == [strategies |-> strategies, plans |-> plans, levels |-> levels,
       orders |-> orders, pairs |-> pairs]

SetDB(db) ==
    /\ strategies' = db.strategies
    /\ plans' = db.plans
    /\ levels' = db.levels
    /\ orders' = db.orders
    /\ pairs' = db.pairs

\* GridLevel(...) rows of create_grid_plan, written by bulk_create: the
\* descriptor's exact values are rounded to the columns' decimal places.
LevelRow(plan_id, level_data) ==
    [grid_plan |-> plan_id,
     price |-> RoundHalfEven(level_data.price),
     investment_amount |-> RoundHalfEven(level_data.investment_amount),
     grid_type |-> level_data.grid_type,
     grid_index |-> level_data.grid_index,
     sell_price |-> RoundHalfEven(level_data.sell_price),
     is_triggered |-> FALSE]

\* Column defaults of GridPlan: max_drawdown_percent 50.00, max_investment
\* 10000.00.
DefaultMaxDrawdownPercent == 500000
DefaultMaxInvestment == 1000000

\* GridPlan.objects.create(...): the aggregates start at their column defaults.
PlanRow(strategy_id, plan_params) ==
    [strategy |-> strategy_id,
     base_price |-> plan_params.base_price,
     min_price |-> plan_params.min_price,
     max_price |-> plan_params.max_price,
     base_investment |-> plan_params.base_investment,
     max_drawdown_percent |-> IF "max_drawdown_percent" \in DOMAIN plan_params
                              THEN plan_params.max_drawdown_percent
                              ELSE DefaultMaxDrawdownPercent,
     max_investment |-> IF "max_investment" \in DOMAIN plan_params
                        THEN plan_params.max_investment
                        ELSE DefaultMaxInvestment,
     status |-> "active",
     total_profit |-> 0, realized_profit |-> 0, kept_profit_shares |-> 0,
     total_trades |-> 0, buy_trades |-> 0, sell_trades |-> 0,
     total_invested |-> 0]

\* GridStrategyService.create_grid_plan: strategy, plan and the plan's levels
\* in one transaction.
CreateGridPlan(db, strategy_params, plan_params) ==
    LET strategy_id == Len(db.strategies) + 1
        plan_id == Len(db.plans) + 1
        grid_plan == PlanRow(strategy_id, plan_params)
        level_data == CalculateGridLevels(strategy_params, grid_plan)
        grid_levels == [i \in 1..Len(level_data) |-> LevelRow(plan_id, level_data[i])]
    IN  [db EXCEPT !.strategies = Append(@, strategy_params),
                   !.plans = Append(@, grid_plan),
                   !.levels = @ \o grid_levels]

\* ------------------------------------------------------------ trigger levels

\* GridStrategyService._create_buy_order: a pending buy order of
\* investment_amount / current_price shares at current_price.
CreateBuyOrder(db, level_id, current_price) ==
    LET grid_level == db.levels[level_id]
        quantity == Frac(grid_level.investment_amount * AmountDen, current_price)
    IN  [grid_plan |-> grid_level.grid_plan,
         grid_level |-> level_id,
         price |-> current_price,
         quantity |-> RoundHalfEven(quantity),
         amount |-> grid_level.investment_amount,
         order_type |-> "buy",
         status |-> "pending",
         filled_price |-> None, filled_quantity |-> 0, filled_amount |-> 0,
         profit_kept_quantity |-> 0]

\* The queryset of trigger_grid_level: the plan's untriggered levels whose
\* price is <= current_price.
LevelsToTrigger(db, plan_id, current_price) ==
    {l \in 1..Len(db.levels) :
        /\ db.levels[l].grid_plan = plan_id
        /\ ~db.levels[l].is_triggered
        /\ db.levels[l].price <= current_price}

RECURSIVE SeqsOf(_)
SeqsOf(S) == IF S = {} THEN {<<>>}
             ELSE UNION {{<<x>> \o t : t \in SeqsOf(S \ {x})} : x \in S}

\* order_by('price'): ascending by price; the database is free in the order
\* of rows of equal price, so every such order is one possible result.
OrderByPrice(db, S) ==
    {q \in SeqsOf(S) :
        \A i \in 1..Len(q) : \A j \in i..Len(q) :
            db.levels[q[i]].price <= db.levels[q[j]].price}

\* GridOrder.objects.create(...) of _create_buy_order: the row is committed
\* at once, trigger_grid_level opens no transaction.
AddBuyOrder(db, level_id, current_price) ==
    [db EXCEPT !.orders = Append(@, CreateBuyOrder(db, level_id, current_price))]

\* level.is_triggered = True; level.save().
SaveLevelTriggered(db, level_id) ==
    [db EXCEPT !.levels[level_id].is_triggered = TRUE]

\* A variant of the loop turn that creates the order and leaves the level
\* unmarked.
TriggerOneUnmarked(db, level_id, current_price) ==
    AddBuyOrder(db, level_id, current_price)

\* One turn of the loop of trigger_grid_level: create the order, then mark the
\* level and save it.
TriggerOne(db, level_id, current_price) ==
    SaveLevelTriggered(AddBuyOrder(db, level_id, current_price), level_id)

\* GridStrategyService.trigger_grid_level over the evaluated queryset: the
\* database after the loop and the orders it returns.
RECURSIVE TriggerGridLevel(_, _, _)
TriggerGridLevel(db, levels_to_trigger, current_price) ==
    IF levels_to_trigger = <<>> THEN [db |-> db, triggered_orders |-> <<>>]
    ELSE LET db1 == TriggerOne(db, Head(levels_to_trigger), current_price)
             rest == TriggerGridLevel(db1, Tail(levels_to_trigger), current_price)
         IN  [db |-> rest.db,
              triggered_orders |-> <<Len(db1.orders)>> \o rest.triggered_orders]

\* --------------------------------------------------------------- order fill

\* The exact in-memory order.filled_amount = filled_price * filled_quantity,
\* in money units.
FilledAmount(filled_price, filled_quantity) ==
    Frac(filled_price * filled_quantity, AmountDen)

\* GridStrategyService._create_sell_order_for_buy: the sell order derived from
\* a filled buy, or None when the body raises (a NULL sell_price of the level
\* in a multi-grid strategy makes "sell_price * filled_quantity" raise; the
\* except clause swallows it).  buy_order is the in-memory order.
SellPriceForBuy(db, buy_order) ==
    LET strategy == db.strategies[db.plans[buy_order.grid_plan].strategy]
    IN  IF strategy.multi_grid /\ buy_order.grid_level # None
        THEN FracOfInt(db.levels[buy_order.grid_level].sell_price)
        ELSE FracMul(FracOfInt(buy_order.filled_price),
                     OnePlus(strategy.grid_interval_percent))

CreateSellOrderForBuy(db, buy_order) ==
    LET sell_price == SellPriceForBuy(db, buy_order)
    IN  IF sell_price = FracOfInt(None) THEN <<>>
        ELSE <<[grid_plan |-> buy_order.grid_plan,
                grid_level |-> buy_order.grid_level,
                price |-> RoundHalfEven(sell_price),
                quantity |-> buy_order.filled_quantity,
                amount |-> RoundHalfEven(FracMul(sell_price,
                               Frac(buy_order.filled_quantity, AmountDen))),
                order_type |-> "sell",
                status |-> "pending",
                filled_price |-> None, filled_quantity |-> 0, filled_amount |-> 0,
                profit_kept_quantity |-> 0]>>

\* GridTradePair.objects.create(grid_plan=..., buy_order=order).
NewTradePair(plan_id, buy_order_id) ==
    [grid_plan |-> plan_id, buy_order |-> buy_order_id, sell_order |-> NoOrder,
     profit_amount |-> 0, profit_rate |-> 0, kept_profit_shares |-> 0,
     is_completed |-> FALSE]

\* A variant of the queryset that takes the open pairs of every level.
OpenPairsOfAnyLevel(db, level_id) ==
    {t \in 1..Len(db.pairs) :
        /\ db.pairs[t].buy_order # NoOrder
        /\ db.pairs[t].sell_order = NoOrder
        /\ ~db.pairs[t].is_completed}

\* The queryset of _process_sell_order_profit: open pairs whose buy order is
\* of the sell order's level; .first() takes the lowest primary key.
OpenPairsOfLevel(db, level_id) ==
    {t \in 1..Len(db.pairs) :
        /\ db.pairs[t].buy_order # NoOrder
        /\ db.orders[db.pairs[t].buy_order].grid_level = level_id
        /\ db.pairs[t].sell_order = NoOrder
        /\ ~db.pairs[t].is_completed}

First(S) == CHOOSE x \in S : \A y \in S : x <= y

\* max_digits = 8, decimal_places = 4 of profit_rate: a larger value makes
\* trade_pair.save() raise.
ProfitRateLimit == 100000000

\* A variant of calculate_profit that subtracts the buy order's planned
\* amount instead of its filled_amount.
CalculateProfitOfPlannedAmount(trade_pair, sell_filled_amount, buy_order) ==
    LET profit == [n |-> sell_filled_amount.n - buy_order.amount * sell_filled_amount.d,
                   d |-> sell_filled_amount.d]
    IN  [profit |-> profit, profit_rate |-> trade_pair.profit_rate]

\* GridTradePair.calculate_profit with the in-memory sell order (exact
\* filled_amount) and the buy order read from the database: the exact profit
\* and the rate, which stays as it is when the buy's filled_amount is 0.
CalculateProfit(trade_pair, sell_filled_amount, buy_order) ==
    LET profit == [n |-> sell_filled_amount.n - buy_order.filled_amount * sell_filled_amount.d,
                   d |-> sell_filled_amount.d]
    IN  [profit |-> profit,
         profit_rate |->
            IF buy_order.filled_amount # 0
            THEN RoundHalfEven(FracMul(Frac(profit.n, profit.d * buy_order.filled_amount),
                                       FracOfInt(100 * PriceScale)))
            ELSE trade_pair.profit_rate]

\* GridStrategyService._process_sell_order_profit: closes the first open pair
\* of the sell order's level and adds its profit to the plan.  The plan row
\* is the handler's in-memory plan; its sums are exact until saved.
ProcessSellOrderProfit(db, order_id, sell_order, sell_filled_amount) ==
    LET open == OpenPairsOfLevel(db, sell_order.grid_level)
    IN  IF open = {} THEN db
        ELSE LET t == First(open)
                 calc == CalculateProfit(db.pairs[t], sell_filled_amount,
                                         db.orders[db.pairs[t].buy_order])
                 grid_plan == db.plans[sell_order.grid_plan]
             IN  IF Abs(calc.profit_rate) >= ProfitRateLimit THEN db
                 ELSE [db EXCEPT
                         !.pairs[t] = [@ EXCEPT !.sell_order = order_id,
                                                !.profit_amount = RoundHalfEven(calc.profit),
                                                !.profit_rate = calc.profit_rate,
                                                !.is_completed = TRUE],
                         !.plans[sell_order.grid_plan] =
                             [@ EXCEPT !.total_profit =
                                           RoundHalfEvenFrom(grid_plan.total_profit, calc.profit),
                                       !.realized_profit =
                                           RoundHalfEvenFrom(grid_plan.realized_profit, calc.profit)]]

\* GridTradePair.objects.get(sell_order=sell_order): the pair the sell order
\* is attached to, if any (DoesNotExist is swallowed).
PairOfSell(db, order_id) == {t \in 1..Len(db.pairs) : db.pairs[t].sell_order = order_id}

\* kept_shares = (profit_amount * keep_ratio) / filled_price, exact, in
\* quantity units.
KeptShares(profit_amount, profit_keep_ratio, filled_price) ==
    FracMul(FracMul(Frac(profit_amount, MoneyScale), Frac(profit_keep_ratio, PercentUnit)),
            Frac(PriceScale * PriceScale, filled_price))

\* A variant of _handle_profit_keeping that retains shares for every
\* non-zero profit, a loss included.
HandleProfitKeepingOfLoss(db, order_id, sell_order) ==
    LET strategy == db.strategies[db.plans[sell_order.grid_plan].strategy]
        got == PairOfSell(db, order_id)
    IN  IF ~strategy.keep_profit \/ got = {} THEN db
        ELSE LET t == First(got)
                 profit_amount == db.pairs[t].profit_amount
                 kept_shares == KeptShares(profit_amount, strategy.profit_keep_ratio,
                                           sell_order.filled_price)
             IN  IF profit_amount # 0
                 THEN [db EXCEPT
                         !.orders[order_id].profit_kept_quantity = RoundHalfEven(kept_shares),
                         !.pairs[t].kept_profit_shares = RoundHalfEven(kept_shares),
                         !.plans[sell_order.grid_plan].kept_profit_shares =
                             RoundHalfEvenFrom(@, kept_shares)]
                 ELSE db

\* GridStrategyService._handle_profit_keeping (2.1): with keep_profit on and
\* a stored profit > 0, the kept shares go on the order, the pair and the plan.
HandleProfitKeeping(db, order_id, sell_order) ==
    LET strategy == db.strategies[db.plans[sell_order.grid_plan].strategy]
        got == PairOfSell(db, order_id)
    IN  IF ~strategy.keep_profit \/ got = {} THEN db
        ELSE LET t == First(got)
                 profit_amount == db.pairs[t].profit_amount
                 kept_shares == KeptShares(profit_amount, strategy.profit_keep_ratio,
                                           sell_order.filled_price)
             IN  IF profit_amount > 0
                 THEN [db EXCEPT
                         !.orders[order_id].profit_kept_quantity = RoundHalfEven(kept_shares),
                         !.pairs[t].kept_profit_shares = RoundHalfEven(kept_shares),
                         !.plans[sell_order.grid_plan].kept_profit_shares =
                             RoundHalfEvenFrom(@, kept_shares)]
                 ELSE db

\* The buy branch of process_order_fill: the derived sell order and, when it
\* was created, the trade pair.
ProcessBuyFill(db, order_id, buy_order) ==
    LET sell_order == CreateSellOrderForBuy(db, buy_order)
    IN  IF sell_order = <<>> THEN db
        ELSE [db EXCEPT !.orders = @ \o sell_order,
                        !.pairs = Append(@, NewTradePair(buy_order.grid_plan, order_id))]

\* A variant of the counting that adds the filled amount of sell orders to
\* total_invested too.
CountFillOfEveryAmount(grid_plan, order, filled_amount) ==
    [grid_plan EXCEPT
        !.total_trades = @ + 1,
        !.buy_trades = IF order.order_type = "buy" THEN @ + 1 ELSE @,
        !.total_invested = RoundHalfEvenFrom(@, filled_amount),
        !.sell_trades = IF order.order_type = "buy" THEN @ ELSE @ + 1]

\* process_order_fill, the plan statistics: grid_plan.save() rounds the
\* in-memory total_invested + filled_amount to the column's 0.01.
CountFill(grid_plan, order, filled_amount) ==
    [grid_plan EXCEPT
        !.total_trades = @ + 1,
        !.buy_trades = IF order.order_type = "buy" THEN @ + 1 ELSE @,
        !.total_invested = IF order.order_type = "buy"
                           THEN RoundHalfEvenFrom(@, filled_amount) ELSE @,
        !.sell_trades = IF order.order_type = "buy" THEN @ ELSE @ + 1]

\* GridStrategyService.process_order_fill(order, filled_price, filled_quantity)
\* as one transaction.  order is the caller's in-memory row of order_id:
\* order.save() writes every column of it.
ProcessOrderFill(db, order_id, order, filled_price, filled_quantity) ==
    LET filled_amount == FilledAmount(filled_price, filled_quantity)
        filled == [order EXCEPT !.filled_price = filled_price,
                                !.filled_quantity = filled_quantity,
                                !.filled_amount = RoundHalfEven(filled_amount),
                                !.status = "filled"]
        counted == CountFill(db.plans[order.grid_plan], order, filled_amount)
        db1 == [db EXCEPT !.orders[order_id] = filled,
                          !.plans[order.grid_plan] = counted]
    IN  IF order.order_type = "buy" THEN ProcessBuyFill(db1, order_id, filled)
        ELSE HandleProfitKeeping(
                 ProcessSellOrderProfit(db1, order_id, filled, filled_amount),
                 order_id, filled)

\* ------------------------------------------------------------ performance

\* Sum('profit_amount') over the first t rows of the pair table that are in
\* the queryset.
RECURSIVE SumProfitAmount(_, _, _)
SumProfitAmount(db, queryset, t) ==
    IF t = 0 THEN 0
    ELSE (IF t \in queryset THEN db.pairs[t].profit_amount ELSE 0)
         + SumProfitAmount(db, queryset, t - 1)

\* completed_pairs: the plan's pairs with is_completed.
CompletedPairs(db, plan_id) ==
    {t \in 1..Len(db.pairs) : db.pairs[t].grid_plan = plan_id /\ db.pairs[t].is_completed}

\* The filled buy orders of the plan that no completed pair holds.
UnsoldBuys(db, plan_id) ==
    {o \in 1..Len(db.orders) :
        /\ db.orders[o].grid_plan = plan_id
        /\ db.orders[o].order_type = "buy"
        /\ db.orders[o].status = "filled"
        /\ ~\E t \in 1..Len(db.pairs) :
               db.pairs[t].buy_order = o /\ db.pairs[t].is_completed}

RECURSIVE SumOverOrders(_, _, _)
SumOverOrders(db, S, field) ==
    IF S = {} THEN 0
    ELSE LET o == CHOOSE x \in S : TRUE
         IN  db.orders[o][field] + SumOverOrders(db, S \ {o}, field)

\* A variant of the performance whose realized profit adds up the gains only.
CalculatePlanPerformanceOfGains(db, plan_id, current_price) ==
    [realized_profit |->
         SumProfitAmount(db, {t \in CompletedPairs(db, plan_id) :
                                  db.pairs[t].profit_amount > 0},
                         Len(db.pairs))]

\* GridStrategyService.calculate_plan_performance: the realized profit is the
\* sum of the stored profit_amount over the plan's completed pairs; position
\* and cost are those of the filled buy orders not yet sold.
CalculatePlanPerformance(db, plan_id, current_price) ==
    LET realized_profit ==
            SumProfitAmount(db, CompletedPairs(db, plan_id), Len(db.pairs))
        total_position == SumOverOrders(db, UnsoldBuys(db, plan_id), "filled_quantity")
        total_cost == SumOverOrders(db, UnsoldBuys(db, plan_id), "filled_amount")
        unrealized_pnl == IF total_position > 0
                          THEN FracSub(FilledAmount(current_price, total_position),
                                       FracOfInt(total_cost))
                          ELSE FracOfInt(0)
    IN  [realized_profit |-> realized_profit,
         unrealized_pnl |-> unrealized_pnl,
         total_profit |-> FracAdd(FracOfInt(realized_profit), unrealized_pnl),
         total_position |-> total_position,
         total_cost |-> total_cost,
         completed_trades |-> Cardinality(CompletedPairs(db, plan_id)),
         total_invested |-> db.plans[plan_id].total_invested]

\* ------------------------------------------------------- request handlers

\* A variant of fill_order without the status check.
FillOrderApiUnguarded(db, order_id, filled_price, filled_quantity) ==
    [db |-> ProcessOrderFill(db, order_id, db.orders[order_id], filled_price, filled_quantity),
     error |-> "none"]

\* A variant of fill_order that rejects cancelled orders only.
FillOrderApiOfFilled(db, order_id, filled_price, filled_quantity) ==
    LET order == db.orders[order_id]
    IN  IF order.status = "cancelled"
        THEN [db |-> db, error |-> "not_pending"]
        ELSE [db |-> ProcessOrderFill(db, order_id, order, filled_price, filled_quantity),
              error |-> IF order.status = "pending" THEN "none" ELSE "not_pending"]

\* fill_order (POST /orders/{id}/fill): only a pending order is processed.
FillOrderApi(db, order_id, filled_price, filled_quantity) ==
    LET order == db.orders[order_id]
    IN  IF order.status # "pending"
        THEN [db |-> db, error |-> "not_pending"]
        ELSE [db |-> ProcessOrderFill(db, order_id, order, filled_price, filled_quantity),
              error |-> "none"]

\* order.status = 'cancelled'; order.save() of cancel_order: save() writes
\* every column of the handler's in-memory order.
SaveCancelled(db, order_id, order) ==
    [db EXCEPT !.orders[order_id] = [order EXCEPT !.status = "cancelled"]]

\* A variant of cancel_order without the status check.
CancelOrderApiUnguarded(db, order_id) ==
    [db |-> [db EXCEPT !.orders[order_id].status = "cancelled"], error |-> "none"]

\* cancel_order (POST /orders/{id}/cancel): pending -> cancelled.
CancelOrderApi(db, order_id) ==
    LET order == db.orders[order_id]
    IN  IF order.status # "pending"
        THEN [db |-> db, error |-> "not_pending"]
        ELSE [db |-> SaveCancelled(db, order_id, order), error |-> "none"]

\* A variant of the stop_plan filter: every order of the plan.
OrdersToCancelOfAnyStatus(db, plan_id) ==
    {o \in 1..Len(db.orders) : db.orders[o].grid_plan = plan_id}

\* The orders stop_plan cancels: the plan's pending ones.
OrdersToCancel(db, plan_id) ==
    {o \in 1..Len(db.orders) :
        db.orders[o].grid_plan = plan_id /\ db.orders[o].status = "pending"}

\* stop_plan (POST /plans/{id}/stop): the plan is stopped and its pending
\* orders are cancelled by one UPDATE.
StopPlanApi(db, plan_id) ==
    LET cancel == OrdersToCancel(db, plan_id)
    IN  [db EXCEPT !.plans[plan_id].status = "stopped",
                   !.orders = [o \in 1..Len(db.orders) |->
                                  IF o \in cancel
                                  THEN [db.orders[o] EXCEPT !.status = "cancelled"]
                                  ELSE db.orders[o]]]

\* update_strategy (PUT /strategies/{id}): every field of the payload is set.
UpdateStrategyApi(db, strategy_id, payload) ==
    [db EXCEPT !.strategies[strategy_id] = payload]

\* ------------------------------------------------------ configuration API

RECURSIVE SumInvestmentAmount(_)
SumInvestmentAmount(level_data) ==
    IF level_data = <<>> THEN FracOfInt(0)
    ELSE FracAdd(Head(level_data).investment_amount, SumInvestmentAmount(Tail(level_data)))

\* The pressure test with the levels at or below the stress price summed.
ExecutePressureTestBelow(strategy, grid_plan) ==
    LET stress_price == FracMul(FracOfInt(grid_plan.base_price),
                                OneMinus(grid_plan.max_drawdown_percent))
        buy_levels == SelectSeq(CalculateGridLevels(strategy, grid_plan),
                                LAMBDA level : FracLeq(level.price, stress_price))
        total_investment == SumInvestmentAmount(buy_levels)
    IN  [stress_price |-> stress_price,
         total_investment_needed |-> total_investment,
         available_funds |-> grid_plan.max_investment,
         is_feasible |-> FracLeq(total_investment, FracOfInt(grid_plan.max_investment)),
         buy_levels_count |-> Len(buy_levels)]

\* GridStrategyService.execute_pressure_test: the ladder is generated anew
\* from the plan and its strategy; the levels at or above
\* base_price * (1 - max_drawdown_percent / 100) are summed.
ExecutePressureTest(strategy, grid_plan) ==
    LET stress_price == FracMul(FracOfInt(grid_plan.base_price),
                                OneMinus(grid_plan.max_drawdown_percent))
        buy_levels == SelectSeq(CalculateGridLevels(strategy, grid_plan),
                                LAMBDA level : FracLeq(stress_price, level.price))
        total_investment == SumInvestmentAmount(buy_levels)
    IN  [stress_price |-> stress_price,
         total_investment_needed |-> total_investment,
         available_funds |-> grid_plan.max_investment,
         is_feasible |-> FracLeq(total_investment, FracOfInt(grid_plan.max_investment)),
         buy_levels_count |-> Len(buy_levels)]

\* GridPlanCreateSchema: the field validators of POST /plans. strategy_data is
\* a free dictionary of which only grid_interval_percent is looked at.
GridPlanCreateSchemaAccepts(payload) ==
    /\ payload.base_price > 0 /\ payload.min_price > 0 /\ payload.max_price > 0
    /\ payload.base_investment > 0 /\ payload.max_investment > 0
    /\ payload.min_price < payload.base_price
    /\ payload.max_price > payload.base_price
    /\ payload.max_investment >= payload.base_investment
    /\ payload.strategy_data.grid_interval_percent > 0

\* create_plan (POST /plans): the validated payload without strategy_data is
\* merged over strategy_data and handed to create_grid_plan. The numbers of
\* strategy_data arrive as JSON numbers: in single-grid mode
\* grid_interval_percent / 100 is then a float and the Decimal base_price
\* times (1 + float) raises TypeError, which rolls the transaction back.
\* Multi-tier mode computes with the tier spacings, Decimal column defaults
\* when strategy_data leaves them out.
CreatePlanApi(db, payload) ==
    IF ~GridPlanCreateSchemaAccepts(payload)
    THEN [db |-> db, error |-> "validation"]
    ELSE IF ~payload.strategy_data.multi_grid
    THEN [db |-> db, error |-> "type_error"]
    ELSE [db |-> CreateGridPlan(db, payload.strategy_data,
                                [base_price |-> payload.base_price,
                                 min_price |-> payload.min_price,
                                 max_price |-> payload.max_price,
                                 max_drawdown_percent |-> payload.max_drawdown_percent,
                                 base_investment |-> payload.base_investment,
                                 max_investment |-> payload.max_investment]),
          error |-> "none"]

\* The three ratio fields of GridStrategyCreateSchema in the order of their
\* definition, which is the order of their validation, and their defaults
\* 50.00, 30.00, 20.00.
RatioFields == <<"small_grid_ratio", "medium_grid_ratio", "large_grid_ratio">>

RatioDefaults ==
    [small_grid_ratio |-> 5000, medium_grid_ratio |-> 3000, large_grid_ratio |-> 2000]

\* info.data.get(field, 0).
GetOrZero(data, field) == IF field \in DOMAIN data THEN data[field] ELSE 0

\* GridStrategyCreateSchema.validate_strategy on one supplied ratio field:
\* data holds the fields validated before it, so the field's own value and the
\* ratio fields after it count as 0.
ValidateStrategy(data) ==
    data.multi_grid =>
        Abs(GetOrZero(data, "small_grid_ratio") + GetOrZero(data, "medium_grid_ratio")
            + GetOrZero(data, "large_grid_ratio") - RatioUnit) <= 1

\* The ratio fields the validator rejects, from field i on: a supplied field
\* is validated and, if accepted, joins data; an omitted field joins data with
\* its default, unvalidated.
RECURSIVE RejectedRatios(_, _, _)
RejectedRatios(payload, data, i) ==
    IF i > Len(RatioFields) THEN {}
    ELSE LET field == RatioFields[i]
         IN  IF field \notin DOMAIN payload
             THEN RejectedRatios(payload, data @@ (field :> RatioDefaults[field]), i + 1)
             ELSE IF ValidateStrategy(data)
             THEN RejectedRatios(payload, data @@ (field :> payload[field]), i + 1)
             ELSE {field} \cup RejectedRatios(payload, data, i + 1)

\* GridStrategyCreateSchema: grid_interval_percent > 0,
\* start_increase_from_grid >= 1 and the ratio validator.
GridStrategyCreateSchemaAccepts(payload) ==
    /\ payload.grid_interval_percent > 0
    /\ payload.start_increase_from_grid >= 1
    /\ RejectedRatios(payload, [f \in DOMAIN payload \ {RatioFields[i] : i \in 1..3}
                                    |-> payload[f]], 1) = {}

\* payload.dict(): the omitted ratio fields at their defaults.
StrategyPayloadDict(payload) ==
    [f \in DOMAIN RatioDefaults \cup DOMAIN payload |->
        IF f \in DOMAIN payload THEN payload[f] ELSE RatioDefaults[f]]

\* create_strategy (POST /strategies).
CreateStrategyApi(db, payload) ==
    IF ~GridStrategyCreateSchemaAccepts(payload)
    THEN [db |-> db, error |-> "validation"]
    ELSE [db |-> [db EXCEPT !.strategies = Append(@, StrategyPayloadDict(payload))],
          error |-> "none"]

\* update_strategy (PUT /strategies/{id}) behind its schema.
UpdateStrategyRequestApi(db, strategy_id, payload) ==
    IF ~GridStrategyCreateSchemaAccepts(payload)
    THEN [db |-> db, error |-> "validation"]
    ELSE [db |-> UpdateStrategyApi(db, strategy_id, StrategyPayloadDict(payload)),
          error |-> "none"]

\* strategy_config.get('start_increase_from_grid', 2) and
\* strategy_config.get('investment_increase_percent', Decimal('5.00')).
DefaultStartIncreaseFromGrid == 2
DefaultInvestmentIncreasePercent == 50000

StartIncreaseFrom(strategy_config) ==
    IF "start_increase_from_grid" \in DOMAIN strategy_config
    THEN strategy_config.start_increase_from_grid
    ELSE DefaultStartIncreaseFromGrid

IncreasePercent(strategy_config) ==
    IF "investment_increase_percent" \in DOMAIN strategy_config
    THEN strategy_config.investment_increase_percent
    ELSE DefaultInvestmentIncreasePercent

\* _calculate_investment_for_level raises TypeError at Decimal('1') +
\* increase_percent when strategy_config carries the percentage as a JSON
\* number (int or float divided by 100 is a float).
CalculateInvestmentForLevelRaises(level_index, strategy_config) ==
    /\ strategy_config.progressive_investment
    /\ level_index >= StartIncreaseFrom(strategy_config) - 1
    /\ "percent_type" \in DOMAIN strategy_config
    /\ strategy_config.percent_type # "Decimal"

\* GridConfigService._calculate_investment_for_level: base_investment grown
\* by the increase percentage per level from index start_increase_from_grid
\* - 1 on when strategy_config asks for progressive sizing, quantized to 0.01.
CalculateInvestmentForLevel(level_index, base_investment, strategy_config) ==
    IF strategy_config.progressive_investment
       /\ level_index >= StartIncreaseFrom(strategy_config) - 1
    THEN RoundHalfEven(FracMul(FracOfInt(base_investment),
                               FracPow(OnePlus(IncreasePercent(strategy_config)),
                                       level_index - StartIncreaseFrom(strategy_config) + 1)))
    ELSE base_investment

\* preview_grid_configuration, the buy loop: from current_price down while
\* >= min_price.
RECURSIVE PreviewBuyLevels(_, _, _)
PreviewBuyLevels(config_data, current_price, level_index) ==
    IF ~FracLeq(FracOfInt(config_data.min_price), current_price) THEN <<>>
    ELSE <<[price |-> current_price,
            investment_amount |-> CalculateInvestmentForLevel(
                level_index, config_data.base_investment, config_data.strategy_config),
            level_index |-> level_index]>>
         \o PreviewBuyLevels(config_data,
                             FracMul(current_price, OneMinus(config_data.grid_interval_percent)),
                             level_index + 1)

\* preview_grid_configuration, the sell loop: from current_price up while
\* <= max_price.
RECURSIVE PreviewSellLevels(_, _, _)
PreviewSellLevels(config_data, current_price, level_index) ==
    IF ~FracLeq(current_price, FracOfInt(config_data.max_price)) THEN <<>>
    ELSE <<[price |-> current_price, investment_amount |-> 0,
            level_index |-> level_index]>>
         \o PreviewSellLevels(config_data,
                              FracMul(current_price, OnePlus(config_data.grid_interval_percent)),
                              level_index + 1)

RECURSIVE SumInvestment(_)
SumInvestment(level_seq) ==
    IF level_seq = <<>> THEN 0
    ELSE Head(level_seq).investment_amount + SumInvestment(Tail(level_seq))

\* _calculate_risk_level on max_drawdown and stress_fund_ratio (both percent).
CalculateRiskLevel(config_data, stress_investment) ==
    LET drop == config_data.base_price - config_data.min_price
        base == config_data.base_price
        funds == config_data.max_investment
    IN  IF drop * 100 > 50 * base \/ (funds > 0 /\ stress_investment * 100 > 80 * funds)
        THEN "high"
        ELSE IF drop * 100 > 30 * base \/ (funds > 0 /\ stress_investment * 100 > 60 * funds)
        THEN "medium"
        ELSE "low"

\* GridConfigService.preview_grid_configuration: the figures of the preview
\* the validation reads.
PreviewGridConfiguration(config_data) ==
    LET buy_levels == PreviewBuyLevels(config_data, FracOfInt(config_data.base_price), 0)
        sell_levels == PreviewSellLevels(config_data,
                           FracMul(FracOfInt(config_data.base_price),
                                   OnePlus(config_data.grid_interval_percent)), 1)
        total_buy_investment == SumInvestment(buy_levels)
        stress_levels == SelectSeq(buy_levels,
            LAMBDA l : FracLeq(l.price, Frac(config_data.min_price * 11, 10)))
    IN  [buy_levels |-> buy_levels,
         sell_levels |-> sell_levels,
         total_levels |-> Len(buy_levels) + Len(sell_levels),
         total_buy_investment |-> total_buy_investment,
         risk_level |-> CalculateRiskLevel(config_data, SumInvestment(stress_levels))]

\* The basic checks with min_price > base_price and max_price < base_price
\* as the only violations.
BasicErrorsStrict(config_data) ==
    (IF config_data.min_price > config_data.base_price
     THEN <<"min_price_not_below_base_price">> ELSE <<>>)
    \o (IF config_data.max_price < config_data.base_price
        THEN <<"max_price_not_above_base_price">> ELSE <<>>)

\* validate_grid_configuration, the basic checks: the errors appended for
\* min_price >= base_price and for max_price <= base_price.
BasicErrors(config_data) ==
    (IF config_data.min_price >= config_data.base_price
     THEN <<"min_price_not_below_base_price">> ELSE <<>>)
    \o (IF config_data.max_price <= config_data.base_price
        THEN <<"max_price_not_above_base_price">> ELSE <<>>)

\* GridConfigService.validate_grid_configuration. preview is None when the
\* preview was not built; the suggestions list is left out.
ValidateGridConfiguration(config_data) ==
    LET base_price == config_data.base_price
        min_price == config_data.min_price
        max_price == config_data.max_price
        grid_interval == config_data.grid_interval_percent
        max_investment == config_data.max_investment
        errors == BasicErrors(config_data)
        early == (IF grid_interval < 10000 THEN {"interval_small"}
                  ELSE IF grid_interval > 200000 THEN {"interval_large"} ELSE {})
                 \cup (IF (max_price - min_price) > 2 * base_price THEN {"range_wide"} ELSE {})
        build == errors = <<>>
        preview == PreviewGridConfiguration(config_data)
        used == preview.total_buy_investment * 100
        late == IF ~build THEN {}
                ELSE (IF max_investment > 0 /\ used > 95 * max_investment
                      THEN {"utilization_high"} ELSE {})
                     \cup (IF preview.risk_level = "high" THEN {"risk_high"} ELSE {})
        warnings == early \cup late
        score == 100 - 20 * Len(errors) - 5 * Cardinality(warnings)
                 + (IF 30000 <= grid_interval /\ grid_interval <= 100000 THEN 5 ELSE 0)
                 + (IF 20 * base_price <= (base_price - min_price) * 100
                       /\ (base_price - min_price) * 100 <= 40 * base_price THEN 5 ELSE 0)
    IN  [is_valid |-> Len(errors) = 0,
         errors |-> errors,
         warnings |-> warnings,
         score |-> IF score < 0 THEN 0 ELSE IF score > 100 THEN 100 ELSE score,
         preview |-> IF build THEN preview.total_levels ELSE None]

\* --------------------------------------------------------------- simulation

\* max(lo, min(hi, x)).
Clamp(lo, hi, x) == IF FracLeq(x, lo) THEN lo ELSE IF FracLeq(hi, x) THEN hi ELSE x

\* trend_factor of _generate_simulation_price_data: trend_strength / days
\* upward, its negative downward, 0 when neutral (percentages as fractions).
TrendFactor(days, trend_direction, trend_strength) ==
    IF trend_direction = "up" THEN Frac(trend_strength, 100 * days)
    ELSE IF trend_direction = "down" THEN Frac(0 - trend_strength, 100 * days)
    ELSE FracOfInt(0)

\* Values np.random.normal(trend_factor, volatility) can return: the mean
\* itself when volatility is 0, else also one volatility below and above it.
DailyChanges(trend_factor, volatility) ==
    IF volatility = 0 THEN {trend_factor}
    ELSE {FracSub(trend_factor, Frac(volatility, 100)), trend_factor,
          FracAdd(trend_factor, Frac(volatility, 100))}

\* The loop of _generate_simulation_price_data over the days' draws: the
\* price is multiplied by (1 + daily_change), clamped to
\* [0.2 * base_price, 5 * base_price], and reported rounded to four places.
\* The volume, high and low of a day, which nothing reads, are left out.
RECURSIVE PriceWalk(_, _, _)
PriceWalk(base_price, current_price, draws) ==
    IF draws = <<>> THEN <<>>
    ELSE LET moved == FracMul(current_price, FracAdd(FracOfInt(1), Head(draws)))
             clamped == Clamp(Frac(base_price, 5), FracOfInt(5 * base_price), moved)
         IN  <<RoundHalfEven(clamped)>> \o PriceWalk(base_price, clamped, Tail(draws))

GenerateSimulationPriceData(base_price, draws) ==
    PriceWalk(base_price, FracOfInt(base_price), draws)

\* dict[key] = value on a dictionary kept as the set of its values, keyed by
\* their price.
Put(dict, value) == {x \in dict : x.price # value.price} \cup {value}

\* The triggered buys of one day, the highest level price first: each buys
\* investment_amount / current_price shares, and notes the sell level at
\* current_price * (1 + grid_interval) under that price as its key.
RECURSIVE ExecuteBuys(_, _, _, _, _)
ExecuteBuys(st, triggered_buys, current_price, day, grid_interval_percent) ==
    IF triggered_buys = {} THEN st
    ELSE LET level_info == CHOOSE l \in triggered_buys :
                              \A o \in triggered_buys : FracLeq(o.price, l.price)
             investment_amount == level_info.investment_amount
             quantity == FracMul(investment_amount, Frac(100, current_price))
             sell_price == FracMul(FracOfInt(current_price), OnePlus(grid_interval_percent))
         IN  ExecuteBuys(
                [st EXCEPT
                    !.position = FracAdd(@, quantity),
                    !.cash = FracSub(@, investment_amount),
                    !.total_trades = @ + 1,
                    !.trades = Append(@, [day |-> day, type |-> "buy",
                                          price |-> current_price,
                                          profit |-> FracOfInt(0),
                                          level |-> level_info.level_index]),
                    !.sell_levels = Put(@, [price |-> sell_price,
                                            quantity |-> quantity,
                                            buy_price |-> current_price,
                                            level_index |-> level_info.level_index]),
                    !.buy_levels = {x \in @ : x.price # level_info.price}],
                triggered_buys \ {level_info}, current_price, day, grid_interval_percent)

\* The triggered sells of one day, the lowest sell price first: each sells
\* its quantity at current_price and puts a buy level back at the price the
\* shares were bought at.
RECURSIVE ExecuteSells(_, _, _, _)
ExecuteSells(st, triggered_sells, current_price, day) ==
    IF triggered_sells = {} THEN st
    ELSE LET sell_info == CHOOSE l \in triggered_sells :
                             \A o \in triggered_sells : FracLeq(l.price, o.price)
             sell_amount == FracMul(Frac(current_price, 100), sell_info.quantity)
             cost == FracMul(Frac(sell_info.buy_price, 100), sell_info.quantity)
         IN  ExecuteSells(
                [st EXCEPT
                    !.position = FracSub(@, sell_info.quantity),
                    !.cash = FracAdd(@, sell_amount),
                    !.total_trades = @ + 1,
                    !.trades = Append(@, [day |-> day, type |-> "sell",
                                          price |-> current_price,
                                          profit |-> FracSub(sell_amount, cost),
                                          level |-> sell_info.level_index]),
                    !.buy_levels = Put(@, [price |-> FracOfInt(sell_info.buy_price),
                                           investment_amount |-> cost,
                                           level_index |-> sell_info.level_index]),
                    !.sell_levels = {x \in @ : x.price # sell_info.price}],
                triggered_sells \ {sell_info}, current_price, day)

\* triggered_buys of one day: a buy level triggers when current_price <= its
\* price and the cash at the start of the day covers its amount.
TriggeredBuys(st, current_price) ==
    {l \in st.buy_levels :
        /\ FracLeq(FracOfInt(current_price), l.price)
        /\ FracLeq(l.investment_amount, st.cash)}

\* triggered_sells of one day: a sell level triggers when current_price >=
\* its price.
TriggeredSells(st, current_price) ==
    {l \in st.sell_levels : FracLeq(l.price, FracOfInt(current_price))}

\* The loop of _run_strategy_simulation over the price points: the day's
\* buys, then the day's sells over the sell levels the buys left.
RECURSIVE ReplayDays(_, _, _, _)
ReplayDays(st, price_data, day, grid_interval_percent) ==
    IF day > Len(price_data) THEN st
    ELSE LET current_price == price_data[day]
             bought == ExecuteBuys(st, TriggeredBuys(st, current_price), current_price,
                                   day, grid_interval_percent)
             sold == ExecuteSells(bought, TriggeredSells(bought, current_price),
                                  current_price, day)
         IN  ReplayDays(sold, price_data, day + 1, grid_interval_percent)

\* The state _run_strategy_simulation starts from: no position, the cash
\* max_investment, the buy levels of the preview keyed by their price.
ReplayStart(config_data) ==
    LET preview == PreviewGridConfiguration(config_data)
    IN  [position |-> FracOfInt(0),
         cash |-> FracOfInt(config_data.max_investment),
         total_trades |-> 0,
         trades |-> <<>>,
         buy_levels |-> {[price |-> preview.buy_levels[i].price,
                          investment_amount |->
                              FracOfInt(preview.buy_levels[i].investment_amount),
                          level_index |-> preview.buy_levels[i].level_index] :
                              i \in 1..Len(preview.buy_levels)},
         sell_levels |-> {}]

\* The figures _run_strategy_simulation returns for the final state.
ReplayOutcome(final) ==
    [trades |-> final.trades,
     total_trades |-> final.total_trades,
     final_position |-> final.position,
     final_cash |-> final.cash,
     buy_trades |-> Len(SelectSeq(final.trades, LAMBDA t : t.type = "buy")),
     sell_trades |-> Len(SelectSeq(final.trades, LAMBDA t : t.type = "sell"))]

\* GridSimulationService._run_strategy_simulation on Decimal values: the buy
\* levels of the preview, the cash max_investment, and the figures of the
\* outcome.
RunStrategySimulation(config_data, price_data) ==
    ReplayOutcome(ReplayDays(ReplayStart(config_data), price_data, 1,
                             config_data.grid_interval_percent))

\* ------------------------------------------------------------------ inputs

\* Rows of the order table in one run: a request that would add a row beyond
\* MaxOrders is not issued.
MaxOrders == 4

\* Strategy payloads: plain single grid (1.0), single grid with profit
\* keeping (2.1), multi grid (2.3).  Ratios sum to 100.
PlainStrategy ==
    [multi_grid |-> FALSE, keep_profit |-> FALSE, profit_keep_ratio |-> 1000000,
     grid_interval_percent |-> 250000,
     progressive_investment |-> FALSE, investment_increase_percent |-> 50000,
     start_increase_from_grid |-> 2,
     small_grid_percent |-> 400000, medium_grid_percent |-> 500000,
     large_grid_percent |-> 600000,
     small_grid_ratio |-> 5000, medium_grid_ratio |-> 3000, large_grid_ratio |-> 2000]

StrategyInputs ==
    {PlainStrategy,
     [PlainStrategy EXCEPT !.keep_profit = TRUE],
     [PlainStrategy EXCEPT !.multi_grid = TRUE]}

\* Plan payloads: base 1.0000, range [0.7000, 1.2000], 4.00 per level.
PlanInputs ==
    {[base_price |-> 10000, min_price |-> 7000, max_price |-> 12000,
      base_investment |-> 400]}

\* current_price of a trigger request.
TriggerPrices == {7500, 10000}

\* <<filled_price, filled_quantity>> of a fill request: 4.00, 5.005 and 4.01
\* of money, so that profits are positive, zero and negative and a product
\* falls half-way between two cents.
FillInputs == {<<10000, 40000>>, <<12500, 40040>>, <<10000, 40100>>}

\* The fill payloads of overlapping requests: 4.00 and 5.005 of money.
OverlappingFillInputs == {<<10000, 40000>>, <<12500, 40040>>}

\* Workers handling requests at the same time.
MaxRequests == 2

Slots == 1..MaxRequests

\* A worker with no request.
IdleRequest ==
    [op |-> "idle", pc |-> "idle", order_id |-> NoOrder, order |-> <<>>, fill |-> <<>>,
     queue |-> <<>>, current_price |-> 0, triggered_count |-> 0]

NoBatch == [start |-> <<>>, calls |-> <<>>]

\* ----------------------------------------------------------------- actions

Init ==
    /\ strategies = <<>>
    /\ plans = <<>>
    /\ levels = <<>>
    /\ orders = <<>>
    /\ pairs = <<>>
    /\ last = [op |-> "init", error |-> "none", triggered_count |-> 0]
    /\ requests = [r \in Slots |-> IdleRequest]
    /\ batch = NoBatch
    /\ simulations = <<>>

\* create_plan (POST /plans).  A run follows one plan.
CreatePlan ==
    /\ plans = <<>>
    /\ \E strategy_params \in StrategyInputs, plan_params \in PlanInputs :
          /\ SetDB(CreateGridPlan(DB, strategy_params, plan_params))
          /\ last' = [op |-> "create_plan", error |-> "none", triggered_count |-> 0]
          /\ UNCHANGED <<requests, batch, simulations>>

UpdateStrategy ==
    \E strategy_id \in 1..Len(strategies), payload \in StrategyInputs :
        /\ SetDB(UpdateStrategyApi(DB, strategy_id, payload))
        /\ last' = [op |-> "update_strategy", error |-> "none", triggered_count |-> 0]
        /\ UNCHANGED <<requests, batch, simulations>>

\* trigger_levels (POST /plans/{id}/trigger-levels).
TriggerLevels ==
    \E plan_id \in 1..Len(plans), current_price \in TriggerPrices :
        \E q \in OrderByPrice(DB, LevelsToTrigger(DB, plan_id, current_price)) :
            /\ Len(orders) + Len(q) <= MaxOrders
            /\ SetDB(TriggerGridLevel(DB, q, current_price).db)
            /\ last' = [op |-> "trigger", error |-> "none",
                        triggered_count |->
                            Len(TriggerGridLevel(DB, q, current_price).triggered_orders)]
            /\ UNCHANGED <<requests, batch, simulations>>

FillOrder ==
    \E order_id \in 1..Len(orders), f \in FillInputs :
        /\ (orders[order_id].status = "pending" /\ orders[order_id].order_type = "buy")
              => Len(orders) < MaxOrders
        /\ SetDB(FillOrderApi(DB, order_id, f[1], f[2]).db)
        /\ last' = [op |-> "fill",
                    error |-> FillOrderApi(DB, order_id, f[1], f[2]).error,
                    triggered_count |-> 0]
        /\ UNCHANGED <<requests, batch, simulations>>

CancelOrder ==
    \E order_id \in 1..Len(orders) :
        LET r == CancelOrderApi(DB, order_id)
        IN  /\ SetDB(r.db)
            /\ last' = [op |-> "cancel", error |-> r.error, triggered_count |-> 0]
            /\ UNCHANGED <<requests, batch, simulations>>

StopPlan ==
    \E plan_id \in 1..Len(plans) :
        /\ SetDB(StopPlanApi(DB, plan_id))
        /\ last' = [op |-> "stop", error |-> "none", triggered_count |-> 0]
        /\ UNCHANGED <<requests, batch, simulations>>

Next ==
    \/ CreatePlan
    \/ UpdateStrategy
    \/ TriggerLevels
    \/ FillOrder
    \/ CancelOrder
    \/ StopPlan

Spec == Init /\ [][Next]_vars

\* ------------------------------------------------ overlapping requests
\* The same handlers, one database statement or transaction at a step, run
\* by MaxRequests workers.  trigger_grid_level opens no transaction: the
\* queryset, each order and each level are separate statements.  fill_order
\* and cancel_order load the order and test its status, and write afterwards:
\* process_order_fill in one transaction, cancel_order with one save().
\* Trigger requests overlap with trigger requests, and fill and cancel
\* requests with each other; at most one fill is in flight for an order.

InFlight == {r \in Slots : requests[r].pc # "idle"}

\* Order rows the requests in flight may still add.
RECURSIVE Reserved(_)
Reserved(S) ==
    IF S = {} THEN 0
    ELSE LET r == CHOOSE x \in S : TRUE
             rows == CASE requests[r].pc = "create" -> Len(requests[r].queue)
                       [] requests[r].pc = "mark" -> Len(requests[r].queue) - 1
                       [] requests[r].pc = "commit" /\ requests[r].op = "fill"
                              /\ requests[r].order.order_type = "buy" -> 1
                       [] OTHER -> 0
         IN  rows + Reserved(S \ {r})

\* for level in levels_to_trigger: the queryset is evaluated once, when the
\* loop starts.
StartTrigger(r) ==
    /\ requests[r].pc = "idle"
    /\ \A x \in InFlight : requests[x].op = "trigger"
    /\ \E plan_id \in 1..Len(plans), current_price \in TriggerPrices :
          \E q \in OrderByPrice(DB, LevelsToTrigger(DB, plan_id, current_price)) :
              /\ q # <<>>
              /\ Len(orders) + Reserved(InFlight) + Len(q) <= MaxOrders
              /\ requests' = [requests EXCEPT ![r] =
                                 [IdleRequest EXCEPT !.op = "trigger", !.pc = "create",
                                                     !.queue = q,
                                                     !.current_price = current_price]]
    /\ batch' = NoBatch
    /\ UNCHANGED <<strategies, plans, levels, orders, pairs, last, simulations>>

\* order = _create_buy_order(level, current_price) for the level at the head
\* of the worker's queue.
TriggerCreateOrder(r) ==
    /\ requests[r].pc = "create"
    /\ SetDB(AddBuyOrder(DB, Head(requests[r].queue), requests[r].current_price))
    /\ requests' = [requests EXCEPT ![r].pc = "mark"]
    /\ UNCHANGED <<last, batch, simulations>>

\* level.is_triggered = True; level.save(), and the next turn of the loop or
\* the response.
TriggerMarkLevel(r) ==
    /\ requests[r].pc = "mark"
    /\ SetDB(SaveLevelTriggered(DB, Head(requests[r].queue)))
    /\ IF Tail(requests[r].queue) = <<>>
       THEN /\ requests' = [requests EXCEPT ![r] = IdleRequest]
            /\ last' = [op |-> "trigger", error |-> "none",
                        triggered_count |-> requests[r].triggered_count + 1]
       ELSE /\ requests' = [requests EXCEPT ![r].queue = Tail(@),
                                            ![r].pc = "create",
                                            ![r].triggered_count = @ + 1]
            /\ last' = last
    /\ UNCHANGED <<batch, simulations>>

\* The worker is stopped while it handles a trigger request: what it has
\* committed stays.
TriggerInterrupted(r) ==
    /\ requests[r].op = "trigger"
    /\ requests' = [requests EXCEPT ![r] = IdleRequest]
    /\ UNCHANGED <<strategies, plans, levels, orders, pairs, last, batch, simulations>>

\* The calls of the overlapping requests, with the one that begins now.
BatchWith(call) ==
    IF InFlight = {} THEN [start |-> DB, calls |-> <<call>>]
    ELSE [batch EXCEPT !.calls = Append(@, call)]

\* get_object_or_404(GridOrder, ...) and the status test of fill_order, for
\* an order that is pending.
StartFill(r) ==
    /\ requests[r].pc = "idle"
    /\ \A x \in InFlight : requests[x].op # "trigger"
    /\ InFlight # {} => Len(batch.calls) < MaxRequests
    /\ \E order_id \in 1..Len(orders), f \in OverlappingFillInputs :
          /\ orders[order_id].status = "pending"
          /\ \A x \in InFlight : requests[x].op = "fill" => requests[x].order_id # order_id
          /\ orders[order_id].order_type = "buy"
                => Len(orders) + Reserved(InFlight) < MaxOrders
          /\ requests' = [requests EXCEPT ![r] =
                             [IdleRequest EXCEPT !.op = "fill", !.pc = "commit",
                                                 !.order_id = order_id,
                                                 !.order = orders[order_id],
                                                 !.fill = f]]
          /\ batch' = BatchWith([op |-> "fill", order_id |-> order_id, fill |-> f])
    /\ UNCHANGED <<strategies, plans, levels, orders, pairs, last, simulations>>

\* GridStrategyService.process_order_fill(order, ...) with the order the
\* handler loaded: the transaction commits.
CommitFill(r) ==
    /\ requests[r].pc = "commit" /\ requests[r].op = "fill"
    /\ SetDB(ProcessOrderFill(DB, requests[r].order_id, requests[r].order,
                              requests[r].fill[1], requests[r].fill[2]))
    /\ requests' = [requests EXCEPT ![r] = IdleRequest]
    /\ last' = [op |-> "fill", error |-> "none", triggered_count |-> 0]
    /\ UNCHANGED <<batch, simulations>>

\* get_object_or_404(GridOrder, ...) and the status test of cancel_order, for
\* an order that is pending.
StartCancel(r) ==
    /\ requests[r].pc = "idle"
    /\ \A x \in InFlight : requests[x].op # "trigger"
    /\ InFlight # {} => Len(batch.calls) < MaxRequests
    /\ \E order_id \in 1..Len(orders) :
          /\ orders[order_id].status = "pending"
          /\ requests' = [requests EXCEPT ![r] =
                             [IdleRequest EXCEPT !.op = "cancel", !.pc = "commit",
                                                 !.order_id = order_id,
                                                 !.order = orders[order_id]]]
          /\ batch' = BatchWith([op |-> "cancel", order_id |-> order_id, fill |-> <<>>])
    /\ UNCHANGED <<strategies, plans, levels, orders, pairs, last, simulations>>

\* order.status = 'cancelled'; order.save() with the order the handler loaded.
CommitCancel(r) ==
    /\ requests[r].pc = "commit" /\ requests[r].op = "cancel"
    /\ SetDB(SaveCancelled(DB, requests[r].order_id, requests[r].order))
    /\ requests' = [requests EXCEPT ![r] = IdleRequest]
    /\ last' = [op |-> "cancel", error |-> "none", triggered_count |-> 0]
    /\ UNCHANGED <<batch, simulations>>

\* create_plan with the single-grid strategy, before any other request.
CreatePlainPlan ==
    /\ plans = <<>>
    /\ \E plan_params \in PlanInputs :
          SetDB(CreateGridPlan(DB, PlainStrategy, plan_params))
    /\ last' = [op |-> "create_plan", error |-> "none", triggered_count |-> 0]
    /\ UNCHANGED <<requests, batch, simulations>>

NextOverlapping ==
    \/ CreatePlainPlan
    \/ \E r \in Slots : StartTrigger(r)
    \/ \E r \in Slots : TriggerCreateOrder(r)
    \/ \E r \in Slots : TriggerMarkLevel(r)
    \/ \E r \in Slots : TriggerInterrupted(r)
    \/ \E r \in Slots : StartFill(r)
    \/ \E r \in Slots : CommitFill(r)
    \/ \E r \in Slots : StartCancel(r)
    \/ \E r \in Slots : CommitCancel(r)

SpecOverlapping == Init /\ [][NextOverlapping]_vars

\* ---------------------------------------------------------- several plans
\* The handlers over up to MaxPlans plans of the same payload, each with its
\* own strategy row, one request after another.

MaxPlans == 2

\* create_plan while fewer than MaxPlans plans exist.
CreateAnotherPlan ==
    /\ Len(plans) < MaxPlans
    /\ \E strategy_params \in {PlainStrategy, [PlainStrategy EXCEPT !.keep_profit = TRUE]},
          plan_params \in PlanInputs :
          SetDB(CreateGridPlan(DB, strategy_params, plan_params))
    /\ last' = [op |-> "create_plan", error |-> "none", triggered_count |-> 0]
    /\ UNCHANGED <<requests, batch, simulations>>

NextPlans ==
    \/ CreateAnotherPlan
    \/ TriggerLevels
    \/ FillOrder
    \/ CancelOrder

SpecPlans == Init /\ [][NextPlans]_vars

\* ------------------------------------------------------- level generation
\* create_grid_plan for a single-grid configuration with the loops of
\* _calculate_single_grid_levels run one turn at a step by worker 1: the
\* worker holds the payload, the loop's current_price and grid_index and the
\* list built so far; the transaction commits when the ladder is returned.

\* Levels one generation may append in the model.
MaxLevels == 8

\* grid_interval_percent of the payloads: 0, -25, 10, 25, 50, 100, 150.
LadderSpacings == {0, 0 - 250000, 100000, 250000, 500000, 1000000, 1500000}

\* base 1.0000, min_price and max_price on, off and at a ladder price.
LadderPlanInputs ==
    {[base_price |-> 10000, min_price |-> lo, max_price |-> hi, base_investment |-> 400] :
        lo \in {7000, 7500, 10000}, hi \in {10000, 12500, 16000}}

Generation == requests[1]

StartGenerate ==
    /\ plans = <<>>
    /\ requests[1].pc = "idle"
    /\ \E spacing \in LadderSpacings, plan_params \in LadderPlanInputs :
          requests' = [requests EXCEPT ![1] =
              [op |-> "create_plan", pc |-> "up",
               strategy |-> [PlainStrategy EXCEPT !.grid_interval_percent = spacing],
               plan |-> plan_params,
               current_price |-> FracOfInt(plan_params.base_price),
               grid_index |-> 0,
               queue |-> <<>>]]
    /\ UNCHANGED <<strategies, plans, levels, orders, pairs, last, batch, simulations>>

\* One turn of "while current_price <= self.max_price".
GenerateUp ==
    /\ Generation.pc = "up"
    /\ FracLeq(Generation.current_price, FracOfInt(Generation.plan.max_price))
    /\ Len(Generation.queue) < MaxLevels
    /\ requests' = [requests EXCEPT
          ![1].queue = Append(@, SingleLevelData(Generation.strategy, Generation.plan,
                                                 Generation.current_price,
                                                 Generation.grid_index)),
          ![1].current_price = FracMul(@, OnePlus(Generation.strategy.grid_interval_percent)),
          ![1].grid_index = @ + 1]
    /\ UNCHANGED <<strategies, plans, levels, orders, pairs, last, batch, simulations>>

\* The upward loop ends; current_price = base_price * (1 - grid_percent).
GenerateTurnDown ==
    /\ Generation.pc = "up"
    /\ ~FracLeq(Generation.current_price, FracOfInt(Generation.plan.max_price))
    /\ requests' = [requests EXCEPT
          ![1].pc = "down",
          ![1].current_price = FracMul(FracOfInt(Generation.plan.base_price),
                                       OneMinus(Generation.strategy.grid_interval_percent)),
          ![1].grid_index = 0 - 1]
    /\ UNCHANGED <<strategies, plans, levels, orders, pairs, last, batch, simulations>>

\* One turn of "while current_price >= self.min_price".
GenerateDown ==
    /\ Generation.pc = "down"
    /\ FracLeq(FracOfInt(Generation.plan.min_price), Generation.current_price)
    /\ Len(Generation.queue) < MaxLevels
    /\ requests' = [requests EXCEPT
          ![1].queue = Append(@, SingleLevelData(Generation.strategy, Generation.plan,
                                                 Generation.current_price,
                                                 Generation.grid_index)),
          ![1].current_price = FracMul(@, OneMinus(Generation.strategy.grid_interval_percent)),
          ![1].grid_index = @ - 1]
    /\ UNCHANGED <<strategies, plans, levels, orders, pairs, last, batch, simulations>>

\* The downward loop ends: calculate_grid_levels returns the sorted list,
\* the levels are created and the transaction commits.
GenerateReturn ==
    /\ Generation.pc = "down"
    /\ ~FracLeq(FracOfInt(Generation.plan.min_price), Generation.current_price)
    /\ requests' = [requests EXCEPT ![1].pc = "returned",
                                    ![1].queue = SortedByPrice(@)]
    /\ SetDB(CreateGridPlan(DB, Generation.strategy, Generation.plan))
    /\ last' = [op |-> "create_plan", error |-> "none", triggered_count |-> 0]
    /\ UNCHANGED <<batch, simulations>>

NextLadder ==
    \/ StartGenerate
    \/ GenerateUp
    \/ GenerateTurnDown
    \/ GenerateDown
    \/ GenerateReturn

SpecLadder == Init /\ [][NextLadder]_vars

\* ------------------------------------------------ configuration requests
\* Plan creation through POST /plans, the configuration validation and the
\* pressure test, one request after another, over a wide set of payloads.

\* (min_price, max_price) around base_price 1.0000, two of them in order.
ConfigRanges == {<<9500, 10500>>, <<7500, 12500>>, <<10000, 12500>>,
                 <<7500, 10000>>, <<12000, 12500>>}

\* max_drawdown_percent: 0, 5, 25, 50.
Drawdowns == {0, 50000, 250000, 500000}

\* (small, medium, large) fund ratios: 50/30/20, 50/30/30, 50/30/19.99 and
\* -50/150/0.
TierRatios == {<<5000, 3000, 2000>>, <<5000, 3000, 3000>>, <<5000, 3000, 1999>>,
               <<0 - 5000, 15000, 0>>}

\* strategy_data: spacing 0, 5 or 25 %, tier spacings at the column defaults
\* 5 / 15 / 30 %; single-grid with and without progressive sizing, multi-tier
\* with each of the fund ratios.
ConfigStrategyData ==
    {[PlainStrategy EXCEPT !.grid_interval_percent = spacing,
                           !.progressive_investment = progressive,
                           !.small_grid_percent = 50000,
                           !.medium_grid_percent = 150000,
                           !.large_grid_percent = 300000] :
        spacing \in {0, 50000, 250000}, progressive \in BOOLEAN}
    \cup
    {[PlainStrategy EXCEPT !.grid_interval_percent = spacing,
                           !.multi_grid = TRUE,
                           !.small_grid_percent = 50000,
                           !.medium_grid_percent = 150000,
                           !.large_grid_percent = 300000,
                           !.small_grid_ratio = ratios[1],
                           !.medium_grid_ratio = ratios[2],
                           !.large_grid_ratio = ratios[3]] :
        spacing \in {0, 50000, 250000}, ratios \in TierRatios}

CreatePlanPayloads ==
    {[base_price |-> 10000, min_price |-> range[1], max_price |-> range[2],
      max_drawdown_percent |-> drawdown,
      base_investment |-> 400, max_investment |-> 2000,
      strategy_data |-> strategy_data] :
        range \in ConfigRanges, drawdown \in Drawdowns,
        strategy_data \in ConfigStrategyData}

\* Configurations handed to the validation: spacing 0.5, 5 or 25 %, funds
\* for few or for all levels.
ConfigInputs ==
    {[base_price |-> 10000, min_price |-> range[1], max_price |-> range[2],
      grid_interval_percent |-> spacing,
      base_investment |-> 400, max_investment |-> funds,
      strategy_config |-> strategy_config] :
        range \in ConfigRanges,
        spacing \in {50000, 250000}, funds \in {800, 4000},
        strategy_config \in
            {[progressive_investment |-> progressive, multi_grid |-> FALSE,
              small_grid_ratio |-> 5000, medium_grid_ratio |-> 3000,
              large_grid_ratio |-> 2000] : progressive \in BOOLEAN}
            \cup
            {[progressive_investment |-> FALSE, multi_grid |-> TRUE,
              small_grid_ratio |-> 5000, medium_grid_ratio |-> 3000,
              large_grid_ratio |-> large] : large \in {2000, 3000}}}

\* GridConfigPreviewRequest: the field validators of POST /config/preview and
\* /config/validate.
GridConfigPreviewRequestAccepts(payload) ==
    /\ payload.base_price > 0 /\ payload.min_price > 0 /\ payload.max_price > 0
    /\ payload.grid_interval_percent > 0
    /\ payload.base_investment > 0 /\ payload.max_investment > 0
    /\ payload.min_price < payload.base_price
    /\ payload.max_price > payload.base_price

CreatePlanRequest ==
    /\ plans = <<>>
    /\ \E payload \in CreatePlanPayloads :
          LET done == CreatePlanApi(DB, payload)
          IN  /\ SetDB(done.db)
              /\ last' = [op |-> "create_plan", error |-> done.error, triggered_count |-> 0]
    /\ UNCHANGED <<requests, batch, simulations>>

\* GridStrategyService.create_grid_plan called with Decimal values.
CreateGridPlanCall ==
    /\ plans = <<>>
    /\ \E payload \in CreatePlanPayloads :
          /\ payload.strategy_data.grid_interval_percent > 0
          /\ ~payload.strategy_data.multi_grid
          /\ payload.min_price < payload.base_price
          /\ payload.base_price < payload.max_price
          /\ SetDB(CreateGridPlan(DB, payload.strategy_data,
                                  [f \in DOMAIN payload \ {"strategy_data"} |-> payload[f]]))
          /\ last' = [op |-> "create_grid_plan", error |-> "none", triggered_count |-> 0]
    /\ UNCHANGED <<requests, batch, simulations>>

\* validate_grid_config (POST /config/validate). The validation reads no
\* table; it is issued on a configuration before its plan is created.
ValidateConfigRequest ==
    /\ plans = <<>>
    /\ \E payload \in ConfigInputs :
          last' = [op |-> "validate_request",
                   error |-> IF GridConfigPreviewRequestAccepts(payload)
                             THEN "none" ELSE "validation",
                   triggered_count |-> 0,
                   config_data |-> payload,
                   result |-> IF GridConfigPreviewRequestAccepts(payload)
                              THEN ValidateGridConfiguration(payload)
                              ELSE <<>>]
    /\ UNCHANGED <<strategies, plans, levels, orders, pairs, requests, batch, simulations>>

\* GridConfigService.validate_grid_configuration called on a configuration.
ValidateConfiguration ==
    /\ plans = <<>>
    /\ \E config_data \in ConfigInputs :
          last' = [op |-> "validate", error |-> "none", triggered_count |-> 0,
                   config_data |-> config_data,
                   result |-> ValidateGridConfiguration(config_data)]
    /\ UNCHANGED <<strategies, plans, levels, orders, pairs, requests, batch, simulations>>

\* pressure_test (POST /plans/{id}/pressure-test).
PressureTest ==
    /\ \E plan_id \in 1..Len(plans) :
          last' = [op |-> "pressure_test", error |-> "none", triggered_count |-> 0,
                   plan_id |-> plan_id,
                   result |-> ExecutePressureTest(strategies[plans[plan_id].strategy],
                                                  plans[plan_id])]
    /\ UNCHANGED <<strategies, plans, levels, orders, pairs, requests, batch, simulations>>

NextConfig ==
    \/ CreatePlanRequest
    \/ PressureTest
    \/ CreateGridPlanCall
    \/ ValidateConfigRequest
    \/ ValidateConfiguration

SpecConfig == Init /\ [][NextConfig]_vars

\* ------------------------------------------------------------------ replay
\* Price-path generation and replay called on Decimal configurations.

\* simulation_days of a run in the model.
MaxDays == 3

\* Configurations replayed: buy levels down to 0.75 or 0.95 or none at all
\* (min_price above base_price), cash for five levels or for none.
ReplayConfigs ==
    {[base_price |-> 10000, min_price |-> range[1], max_price |-> range[2],
      grid_interval_percent |-> spacing,
      base_investment |-> 400, max_investment |-> funds,
      strategy_config |-> [progressive_investment |-> FALSE]] :
        range \in {<<7500, 12500>>, <<9500, 10500>>, <<12000, 12500>>},
        spacing \in {50000, 250000}, funds \in {200, 2000}}

\* days, price_volatility (%), trend_direction, trend_strength (%).
SimulationParams ==
    {[days |-> days, volatility |-> volatility,
      trend_direction |-> trend_direction, trend_strength |-> trend_strength] :
        days \in 1..MaxDays, volatility \in {0, 10},
        trend_direction \in {"neutral", "up", "down"}, trend_strength \in {0, 30}}

\* The sequences of daily changes the generator can draw for params.
Draws(params) ==
    [1..params.days -> DailyChanges(TrendFactor(params.days, params.trend_direction,
                                                params.trend_strength),
                                    params.volatility)]

\* A configuration, the parameters and the generator's draws are given.
InitReplay ==
    /\ strategies = <<>> /\ plans = <<>> /\ levels = <<>>
    /\ orders = <<>> /\ pairs = <<>>
    /\ requests = [r \in Slots |-> IdleRequest]
    /\ batch = NoBatch
    /\ simulations = <<>>
    /\ \E config_data \in ReplayConfigs, params \in SimulationParams :
          \E draws \in Draws(params) :
              last = [op |-> "given", error |-> "none", triggered_count |-> 0,
                      config_data |-> config_data, params |-> params, draws |-> draws]

\* _generate_simulation_price_data, then _run_strategy_simulation on its path.
Replay ==
    /\ last.op = "given"
    /\ LET price_data == GenerateSimulationPriceData(last.config_data.base_price, last.draws)
       IN  last' = [op |-> "replay", error |-> "none", triggered_count |-> 0,
                    config_data |-> last.config_data,
                    params |-> last.params,
                    price_data |-> price_data,
                    results |-> RunStrategySimulation(last.config_data, price_data)]
    /\ UNCHANGED <<strategies, plans, levels, orders, pairs, requests, batch, simulations>>

NextReplay == Replay

SpecReplay == InitReplay /\ [][NextReplay]_vars

\* ------------------------------------------------------------ replay by day
\* _run_strategy_simulation followed through its loop: worker 1 holds the
\* replay's local variables, and each day takes two steps, the buys and the
\* sells.

Simulating == requests[1]

InitReplayDays ==
    /\ strategies = <<>> /\ plans = <<>> /\ levels = <<>>
    /\ orders = <<>> /\ pairs = <<>>
    /\ batch = NoBatch
    /\ simulations = <<>>
    /\ last = [op |-> "init", error |-> "none", triggered_count |-> 0]
    /\ \E config_data \in ReplayConfigs, params \in SimulationParams :
          \E draws \in Draws(params) :
              requests = [r \in Slots |->
                  IF r = 1
                  THEN [op |-> "simulate", pc |-> "buys", day |-> 1,
                        config_data |-> config_data,
                        price_data |-> GenerateSimulationPriceData(config_data.base_price,
                                                                   draws),
                        before |-> ReplayStart(config_data),
                        st |-> ReplayStart(config_data)]
                  ELSE IdleRequest]

\* The buys of the day: triggered_buys is collected, then executed.
ReplayBuys ==
    /\ Simulating.pc = "buys"
    /\ Simulating.day <= Len(Simulating.price_data)
    /\ LET current_price == Simulating.price_data[Simulating.day]
       IN  requests' = [requests EXCEPT
              ![1].pc = "sells",
              ![1].before = Simulating.st,
              ![1].st = ExecuteBuys(Simulating.st,
                                    TriggeredBuys(Simulating.st, current_price),
                                    current_price, Simulating.day,
                                    Simulating.config_data.grid_interval_percent)]
    /\ UNCHANGED <<strategies, plans, levels, orders, pairs, last, batch, simulations>>

\* The sells of the day, and on to the next price point.
ReplaySells ==
    /\ Simulating.pc = "sells"
    /\ LET current_price == Simulating.price_data[Simulating.day]
       IN  requests' = [requests EXCEPT
              ![1].pc = "buys",
              ![1].day = @ + 1,
              ![1].before = Simulating.st,
              ![1].st = ExecuteSells(Simulating.st,
                                     TriggeredSells(Simulating.st, current_price),
                                     current_price, Simulating.day)]
    /\ UNCHANGED <<strategies, plans, levels, orders, pairs, last, batch, simulations>>

\* The loop is over: the outcome is returned.
ReplayReturn ==
    /\ Simulating.pc = "buys"
    /\ Simulating.day > Len(Simulating.price_data)
    /\ requests' = [requests EXCEPT ![1].pc = "returned"]
    /\ last' = [op |-> "replay", error |-> "none", triggered_count |-> 0,
                results |-> ReplayOutcome(Simulating.st)]
    /\ UNCHANGED <<strategies, plans, levels, orders, pairs, batch, simulations>>

NextReplayDays == ReplayBuys \/ ReplaySells \/ ReplayReturn

SpecReplayDays == InitReplayDays /\ [][NextReplayDays]_vars

\* --------------------------------------------------------- simulation runs
\* run_grid_simulation by worker 1, in its two writes: the run row is created
\* with status running, then the try block generates the path, replays it,
\* computes the metrics and saves, or its except clause saves the failure.
\* Beside it a plan is created, its levels triggered and its orders filled.

\* Rows of the simulation table in one run.
MaxSimulations == 1

\* The calls: number_type is the Python type of the numbers of config_data
\* (JSON numbers arrive as int or float, a direct caller may pass Decimal) and
\* of volatility and trend_strength (Decimal from GridSimulationRequest).
SimulationCalls ==
    {[config_data |-> [number_type |-> config_type,
                       base_price |-> 10000, min_price |-> min_price,
                       max_price |-> 12500, grid_interval_percent |-> 50000,
                       base_investment |-> 400, max_investment |-> 2000,
                       strategy_config |-> [progressive_investment |-> FALSE]],
      params |-> [number_type |-> params_type,
                  days |-> 2, volatility |-> volatility,
                  trend_direction |-> "neutral", trend_strength |-> 0]] :
        config_type \in {"Decimal", "int", "float"}, min_price \in {7500, 12000},
        params_type \in {"Decimal", "float"}, volatility \in {0, 10}}

\* GridSimulation.objects.create: the JSONField's encoder refuses a Decimal
\* anywhere in config_data or simulation_params.
CreateRaises(call) ==
    call.config_data.number_type = "Decimal" \/ call.params.number_type = "Decimal"

\* The exception the try block of run_grid_simulation ends with, for a call
\* whose row could be created (no Decimal in config_data). With floats,
\* grid_interval_percent / Decimal('100') in the preview raises TypeError;
\* with ints and a buy level, base_investment.quantize raises AttributeError;
\* with ints and no buy level the replay and the metrics run through and
\* simulation.save() raises TypeError, simulation_results carrying the
\* Decimal final_position.
TryRaises(call) ==
    IF call.config_data.number_type = "float" THEN "TypeError"
    ELSE IF call.config_data.min_price <= call.config_data.base_price
    THEN "AttributeError"
    ELSE "TypeError"

\* run_grid_simulation up to the creation of the run row.
StartSimulation ==
    /\ requests[1].pc = "idle"
    /\ Len(simulations) < MaxSimulations
    /\ \E call \in SimulationCalls :
          IF CreateRaises(call)
          THEN /\ last' = [op |-> "run_grid_simulation", error |-> "TypeError",
                           triggered_count |-> 0, simulation |-> None]
               /\ UNCHANGED <<requests, simulations>>
          ELSE /\ simulations' = Append(simulations,
                                        [config_data |-> call.config_data,
                                         simulation_params |-> call.params,
                                         simulation_results |-> "{}",
                                         status |-> "running"])
               /\ requests' = [requests EXCEPT ![1] =
                                  [op |-> "run_grid_simulation", pc |-> "try",
                                   simulation |-> Len(simulations) + 1,
                                   call |-> call]]
               /\ UNCHANGED last
    /\ UNCHANGED <<strategies, plans, levels, orders, pairs, batch>>

\* The run ending with the replayed trades counted on the stored plans.
FinishSimulationOnPlan ==
    /\ requests[1].pc = "try"
    /\ simulations' = [simulations EXCEPT
          ![requests[1].simulation].status = "failed",
          ![requests[1].simulation].simulation_results = TryRaises(requests[1].call)]
    /\ plans' = [p \in 1..Len(plans) |-> [plans[p] EXCEPT !.total_trades = @ + 1]]
    /\ last' = [op |-> "run_grid_simulation", error |-> TryRaises(requests[1].call),
                triggered_count |-> 0, simulation |-> requests[1].simulation]
    /\ requests' = [requests EXCEPT ![1] = IdleRequest]
    /\ UNCHANGED <<strategies, levels, orders, pairs, batch>>

\* The try block and its except clause: status failed and the message are
\* saved, and the exception is raised again.
FinishSimulation ==
    /\ requests[1].pc = "try"
    /\ simulations' = [simulations EXCEPT
          ![requests[1].simulation].status = "failed",
          ![requests[1].simulation].simulation_results = TryRaises(requests[1].call)]
    /\ last' = [op |-> "run_grid_simulation", error |-> TryRaises(requests[1].call),
                triggered_count |-> 0, simulation |-> requests[1].simulation]
    /\ requests' = [requests EXCEPT ![1] = IdleRequest]
    /\ UNCHANGED <<strategies, plans, levels, orders, pairs, batch>>

NextSimulation ==
    \/ CreatePlainPlan
    \/ TriggerLevels
    \/ FillOrder
    \/ StartSimulation
    \/ FinishSimulation

SpecSimulation == Init /\ [][NextSimulation]_vars

\* -------------------------------------------------------- strategy requests
\* POST /strategies and PUT /strategies/{id} behind GridStrategyCreateSchema,
\* with any of the three fund ratios supplied or left out.

\* Rows of the strategy table in one run.
MaxStrategies == 1

\* The ratio fields a payload supplies, with their values: 50, 33.33 or 100
\* for small, 30, 33.33 or 0 for medium, 20, 33.34, 30 or 0 for large.
SuppliedRatios ==
    {small @@ medium @@ large :
        small \in {<<>>} \cup {("small_grid_ratio" :> v) : v \in {5000, 3333, 10000}},
        medium \in {<<>>} \cup {("medium_grid_ratio" :> v) : v \in {3000, 3333, 0}},
        large \in {<<>>} \cup {("large_grid_ratio" :> v) : v \in {2000, 3334, 3000, 0}}}

StrategyPayloads ==
    {[f \in DOMAIN PlainStrategy \ DOMAIN RatioDefaults |->
         IF f = "multi_grid" THEN multi_grid ELSE PlainStrategy[f]] @@ ratios :
        multi_grid \in BOOLEAN, ratios \in SuppliedRatios}

CreateStrategyRequest ==
    /\ Len(strategies) < MaxStrategies
    /\ \E payload \in StrategyPayloads :
          LET done == CreateStrategyApi(DB, payload)
          IN  /\ SetDB(done.db)
              /\ last' = [op |-> "create_strategy", error |-> done.error,
                          triggered_count |-> 0, payload |-> payload]
    /\ UNCHANGED <<requests, batch, simulations>>

UpdateStrategyRequest ==
    /\ \E strategy_id \in 1..Len(strategies), payload \in StrategyPayloads :
          LET done == UpdateStrategyRequestApi(DB, strategy_id, payload)
          IN  /\ SetDB(done.db)
              /\ last' = [op |-> "update_strategy", error |-> done.error,
                          triggered_count |-> 0, payload |-> payload]
    /\ UNCHANGED <<requests, batch, simulations>>

NextStrategy == CreateStrategyRequest \/ UpdateStrategyRequest

SpecStrategy == Init /\ [][NextStrategy]_vars

\* ------------------------------------------------------------ level sizing
\* The two sizing functions applied to one level: a strategy with its
\* progressive flag, start grid and increase percentage, a base investment
\* and a grid index are given, and the level is sized.

\* Levels up to this distance from base are sized.
MaxDistance == 4

\* Strategies with start_increase_from_grid 1..3 and an increase of 5, 10 or
\* 25 % per level.
SizingStrategies ==
    {[PlainStrategy EXCEPT !.progressive_investment = progressive,
                           !.start_increase_from_grid = start,
                           !.investment_increase_percent = percent] :
        progressive \in BOOLEAN, start \in 1..3, percent \in {50000, 100000, 250000}}

\* The strategy_config of a preview for strategy s: the percentage left out
\* ("default"), given as a Decimal by a direct caller or as a JSON number.
SizingConfig(s, percent_type) ==
    IF percent_type = "default"
    THEN [progressive_investment |-> s.progressive_investment,
          start_increase_from_grid |-> s.start_increase_from_grid]
    ELSE [progressive_investment |-> s.progressive_investment,
          start_increase_from_grid |-> s.start_increase_from_grid,
          investment_increase_percent |-> s.investment_increase_percent,
          percent_type |-> percent_type]

InitSizing ==
    /\ strategies = <<>> /\ plans = <<>> /\ levels = <<>>
    /\ orders = <<>> /\ pairs = <<>>
    /\ requests = [r \in Slots |-> IdleRequest]
    /\ batch = NoBatch
    /\ simulations = <<>>
    /\ \E s \in SizingStrategies, base_investment \in {400, 1000},
          grid_index \in (0 - MaxDistance)..MaxDistance,
          percent_type \in {"default", "Decimal", "float"} :
          last = [op |-> "given", error |-> "none", triggered_count |-> 0,
                  strategy |-> s, base_investment |-> base_investment,
                  grid_index |-> grid_index,
                  strategy_config |-> SizingConfig(s, percent_type)]

\* One turn of a loop of _calculate_single_grid_levels at grid_index.
SizeLevel ==
    /\ last.op = "given"
    /\ \E p \in PlanInputs :
          last' = [op |-> "sized", error |-> "none", triggered_count |-> 0,
                   strategy |-> last.strategy,
                   base_investment |-> last.base_investment,
                   grid_index |-> last.grid_index,
                   level_data |-> SingleLevelData(
                       last.strategy,
                       [p EXCEPT !.base_investment = last.base_investment],
                       FracOfInt(p.base_price), last.grid_index)]
    /\ UNCHANGED <<strategies, plans, levels, orders, pairs, requests, batch, simulations>>

\* One turn of the buy loop of preview_grid_configuration at level_index.
SizePreviewLevel ==
    /\ last.op = "given"
    /\ last.grid_index >= 0
    /\ LET raises == CalculateInvestmentForLevelRaises(last.grid_index, last.strategy_config)
       IN  last' = [op |-> "preview_sized",
                    error |-> IF raises THEN "type_error" ELSE "none",
                    triggered_count |-> 0,
                    base_investment |-> last.base_investment,
                    level_index |-> last.grid_index,
                    strategy_config |-> last.strategy_config,
                    investment_amount |->
                        IF raises THEN None
                        ELSE CalculateInvestmentForLevel(last.grid_index,
                                                         last.base_investment,
                                                         last.strategy_config)]
    /\ UNCHANGED <<strategies, plans, levels, orders, pairs, requests, batch, simulations>>

NextSizing == SizeLevel \/ SizePreviewLevel

SpecSizing == InitSizing /\ [][NextSizing]_vars

\* ------------------------------------------------------------------ claims

Tables == <<strategies, plans, levels, orders, pairs>>

Orders == 1..Len(orders)
Pairs == 1..Len(pairs)
Plans == 1..Len(plans)

\* C1: a second TriggerLevels call with the same price, right after a first
\* one, returns no order and changes no row: every level the first call
\* selected is triggered and is skipped.  Stated for every reachable state,
\* for every plan, price and row order of the first call.
C1_TriggerIdempotent ==
    \A plan_id \in Plans, current_price \in TriggerPrices :
        \A q \in OrderByPrice(DB, LevelsToTrigger(DB, plan_id, current_price)) :
            LET first == TriggerGridLevel(DB, q, current_price)
            IN  /\ LevelsToTrigger(first.db, plan_id, current_price) = {}
                /\ \A q2 \in OrderByPrice(first.db,
                                 LevelsToTrigger(first.db, plan_id, current_price)) :
                       LET second == TriggerGridLevel(first.db, q2, current_price)
                       IN  second.triggered_orders = <<>> /\ second.db = first.db

\* A trigger request has just created orders, and a level that the same price
\* selected is now triggered with a pending buy order.
C1_Witness ==
    /\ last.op = "trigger" /\ last.triggered_count > 0
    /\ \E o \in Orders : /\ orders[o].order_type = "buy"
                         /\ orders[o].status = "pending"
                         /\ levels[orders[o].grid_level].is_triggered

\* C2: FillOrder on an order that is not pending is rejected (not pending)
\* and changes no row: the order's fill fields and status, the plan counters
\* and the order and trade-pair tables stay as they are.
C2_FillNonPendingRejected ==
    \A o \in Orders : \A f \in FillInputs :
        orders[o].status # "pending" =>
            /\ FillOrderApi(DB, o, f[1], f[2]).error = "not_pending"
            /\ FillOrderApi(DB, o, f[1], f[2]).db = DB

\* A fill request has just been rejected while a filled and a cancelled order
\* exist.
C2_Witness ==
    /\ last.op = "fill" /\ last.error = "not_pending"
    /\ \E o \in Orders : orders[o].status = "filled"
    /\ \E o \in Orders : orders[o].status = "cancelled"

\* C3: an order's status only moves pending -> filled, pending -> cancelled
\* or pending -> partial; a filled or cancelled order keeps its status, and
\* no order row disappears.
C3_StatusOneWay ==
    [][/\ Len(orders') >= Len(orders)
       /\ \A o \in Orders :
             orders'[o].status # orders[o].status =>
                 /\ orders[o].status = "pending"
                 /\ orders'[o].status \in {"filled", "cancelled", "partial"}]_vars

\* A filled order and a cancelled order exist after a stop-plan request.
C3_Witness ==
    /\ last.op = "stop"
    /\ \E o \in Orders : orders[o].status = "filled"
    /\ \E o \in Orders : orders[o].status = "cancelled"

\* Pairs that this step completes.
NewlyCompleted == {t \in Pairs : ~pairs[t].is_completed /\ pairs'[t].is_completed}

\* A step closes at most one pair, a completed pair's row never changes
\* again, and a plan's total_profit or realized_profit changes only in a step
\* that completes one of its pairs.
ClosedAtMostOnce ==
    /\ Len(pairs') >= Len(pairs)
    /\ \A t \in Pairs : pairs[t].is_completed => pairs'[t] = pairs[t]
    /\ Cardinality(NewlyCompleted) <= 1
    /\ \A p \in Plans :
          (\/ plans'[p].total_profit # plans[p].total_profit
           \/ plans'[p].realized_profit # plans[p].realized_profit)
          => \E t \in NewlyCompleted : pairs[t].grid_plan = p

\* In the state after the step: a fill request for the sell order of a
\* completed pair changes no row and is answered with the given error.
RefillOfCompletedPairRejected(error) ==
    \A t \in 1..Len(pairs') :
        pairs'[t].is_completed =>
            \A f \in FillInputs :
                /\ FillOrderApi(DB', pairs'[t].sell_order, f[1], f[2]).db = DB'
                /\ FillOrderApi(DB', pairs'[t].sell_order, f[1], f[2]).error = error

\* C4 as stated: a pair is closed at most once, its profit is added to the
\* plan at most once, and an attempt to close a completed pair changes
\* nothing and is reported as the error TradePairAlreadyComplete.
C4_Original ==
    [][ClosedAtMostOnce /\ RefillOfCompletedPairRejected("pair_already_complete")]_vars

\* C4 amended: the same, but the attempt to close a completed pair (a fill of
\* its sell order, which is filled by then) is rejected as a fill of an order
\* that is not pending.
C4_PairClosedOnce ==
    [][ClosedAtMostOnce /\ RefillOfCompletedPairRejected("not_pending")]_vars

\* A pair is completed with a non-zero profit on the plan, and the last
\* request was a rejected fill.
C4_Witness ==
    /\ last.op = "fill" /\ last.error = "not_pending"
    /\ \E t \in Pairs : /\ pairs[t].is_completed
                        /\ pairs[t].profit_amount # 0
                        /\ plans[pairs[t].grid_plan].total_profit # 0

\* The difference between a completed pair's profit_amount and
\* sell.filled_amount - buy.filled_amount, in money units.
ProfitDrift(t) ==
    pairs[t].profit_amount
    - (orders[pairs[t].sell_order].filled_amount - orders[pairs[t].buy_order].filled_amount)

IsKeptShares(kept, profit_amount, profit_keep_ratio, filled_price) ==
    2 * Abs(kept * filled_price - profit_amount * profit_keep_ratio) <= filled_price

\* C6: a sell fill retains shares only with profit keeping on and a profit
\* > 0, and then (profit * ratio / 100) / sell.filled_price of them on the
\* order, the pair and the plan; with a profit <= 0 or profit keeping off the
\* three retained quantities stay as they were; no other step changes them.
C6_KeepOnlyPositiveProfit ==
    [][/\ \A t \in NewlyCompleted :
             LET o == pairs'[t].sell_order
                 p == pairs[t].grid_plan
                 strategy == strategies[plans[p].strategy]
                 profit == pairs'[t].profit_amount
             IN  IF strategy.keep_profit /\ profit > 0
                 THEN /\ IsKeptShares(orders'[o].profit_kept_quantity, profit,
                                      strategy.profit_keep_ratio, orders'[o].filled_price)
                      /\ pairs'[t].kept_profit_shares = orders'[o].profit_kept_quantity
                      /\ IsKeptShares(plans'[p].kept_profit_shares - plans[p].kept_profit_shares,
                                      profit, strategy.profit_keep_ratio,
                                      orders'[o].filled_price)
                 ELSE /\ orders'[o].profit_kept_quantity = orders[o].profit_kept_quantity
                      /\ pairs'[t].kept_profit_shares = pairs[t].kept_profit_shares
                      /\ plans'[p].kept_profit_shares = plans[p].kept_profit_shares
       /\ NewlyCompleted = {} =>
             /\ \A o \in Orders : orders'[o].profit_kept_quantity = orders[o].profit_kept_quantity
             /\ \A t \in Pairs : pairs'[t].kept_profit_shares = pairs[t].kept_profit_shares
             /\ \A p \in Plans : plans'[p].kept_profit_shares = plans[p].kept_profit_shares]_vars

\* With profit keeping on, one pair closed at a loss and nothing is retained
\* for it, and another closed at a profit with shares retained.
C6_Witness ==
    /\ \E t \in Pairs : /\ pairs[t].is_completed
                        /\ pairs[t].profit_amount < 0
                        /\ strategies[plans[pairs[t].grid_plan].strategy].keep_profit
                        /\ pairs[t].kept_profit_shares = 0
    /\ \E t \in Pairs : /\ pairs[t].is_completed
                        /\ pairs[t].profit_amount > 0
                        /\ pairs[t].kept_profit_shares > 0
                        /\ plans[pairs[t].grid_plan].kept_profit_shares > 0

C8_Original ==
    \A o \in Orders :
        (orders[o].order_type = "buy" /\ orders[o].status = "filled") =>
            /\ Cardinality({t \in Pairs : pairs[t].buy_order = o}) = 1
            /\ Cardinality({x \in Orders : /\ orders[x].order_type = "sell"
                                           /\ orders[x].grid_level = orders[o].grid_level}) = 1

\* No request is in flight.
Quiescent == InFlight = {}

\* C9 as stated: whenever no trigger request is in flight, also after an
\* interrupted request and after overlapping requests, a level is triggered
\* if and only if exactly one buy order references it.
C9_Original ==
    Quiescent =>
        \A l \in 1..Len(levels) :
            levels[l].is_triggered <=>
                Cardinality({o \in Orders : /\ orders[o].order_type = "buy"
                                            /\ orders[o].grid_level = l}) = 1

\* One call of a batch, run alone by its handler.
ApplyCall(db, call) ==
    IF call.op = "fill"
    THEN FillOrderApi(db, call.order_id, call.fill[1], call.fill[2]).db
    ELSE CancelOrderApi(db, call.order_id).db

\* The tables after the calls numbered in S, run one after another from db
\* in every order.
RECURSIVE SerialResults(_, _)
SerialResults(db, S) ==
    IF S = {} THEN {db}
    ELSE UNION {SerialResults(ApplyCall(db, batch.calls[c]), S \ {c}) : c \in S}

\* C10 as stated: once overlapping fill and cancel requests have all ended,
\* the tables are those of running the same calls one after another in some
\* order.
C10_Original ==
    (Quiescent /\ batch.calls # <<>>) =>
        DB \in SerialResults(batch.start, 1..Len(batch.calls))

\* The rows of one plan: its plan row, its strategy row, and its levels,
\* orders and trade pairs with their primary keys.
PlanView(db, plan_id) ==
    [plan |-> db.plans[plan_id],
     strategy |-> db.strategies[db.plans[plan_id].strategy],
     levels |-> {<<l, db.levels[l]>> : l \in {x \in 1..Len(db.levels) :
                                               db.levels[x].grid_plan = plan_id}},
     orders |-> {<<o, db.orders[o]>> : o \in {x \in 1..Len(db.orders) :
                                               db.orders[x].grid_plan = plan_id}},
     pairs |-> {<<t, db.pairs[t]>> : t \in {x \in 1..Len(db.pairs) :
                                             \/ db.pairs[x].grid_plan = plan_id
                                             \/ db.orders[db.pairs[x].buy_order].grid_plan = plan_id}}]

\* C11: from every reachable state, a trigger request on plan A (any price,
\* any row order), and a fill (any payload) or a cancel of any order of plan
\* A, leave the plan row, strategy, levels, orders and trade pairs of every
\* other plan B as they were; no pair of B gets a sell order of A.
C11_PlansIsolated ==
    \A a \in Plans, b \in Plans :
        a # b =>
            /\ \A current_price \in TriggerPrices :
                 \A q \in OrderByPrice(DB, LevelsToTrigger(DB, a, current_price)) :
                     PlanView(TriggerGridLevel(DB, q, current_price).db, b) = PlanView(DB, b)
            /\ \A o \in Orders :
                 orders[o].grid_plan = a =>
                     /\ PlanView(CancelOrderApi(DB, o).db, b) = PlanView(DB, b)
                     /\ \A f \in FillInputs :
                          PlanView(FillOrderApi(DB, o, f[1], f[2]).db, b) = PlanView(DB, b)

\* Two plans each have an open pair at the level of the same price, and a
\* pending sell order of one of them is about to be filled.
C11_Witness ==
    \E a \in Plans, b \in Plans :
        /\ a # b
        /\ \E o \in Orders : /\ orders[o].grid_plan = a
                             /\ orders[o].order_type = "sell"
                             /\ orders[o].status = "pending"
        /\ \E t \in Pairs : /\ pairs[t].grid_plan = b
                            /\ ~pairs[t].is_completed
                            /\ \A u \in Pairs : pairs[u].grid_plan = a => t < u

\* The k-th price above and below base_price of a single-grid ladder.
UpPrice(s, p, k) == FracMul(FracOfInt(p.base_price), FracPow(OnePlus(s.grid_interval_percent), k))
DownPrice(s, p, k) == FracMul(FracOfInt(p.base_price), FracPow(OneMinus(s.grid_interval_percent), k))

\* The prices the two rules give: going up from base while <= max_price,
\* going down from base * (1 - s) while >= min_price.
LadderPrices(s, p) ==
    {UpPrice(s, p, k) : k \in {i \in 0..MaxLevels :
        \A j \in 0..i : FracLeq(UpPrice(s, p, j), FracOfInt(p.max_price))}}
    \cup
    {DownPrice(s, p, k) : k \in {i \in 1..MaxLevels :
        \A j \in 1..i : FracLeq(FracOfInt(p.min_price), DownPrice(s, p, j))}}

\* C12: the ladder a single-grid generation with spacing > 0 returns is
\* strictly ascending by price, its prices lie in [min_price, max_price] and
\* are exactly the prices of the two rules; it is what calculate_grid_levels
\* computes.
C12_SingleLadder ==
    Generation.pc = "returned" =>
        LET s == Generation.strategy
            p == Generation.plan
            ladder == Generation.queue
        IN  /\ s.grid_interval_percent > 0
            /\ \A i \in 1..Len(ladder) : \A j \in 1..Len(ladder) :
                  i < j => /\ FracLeq(ladder[i].price, ladder[j].price)
                           /\ ladder[i].price # ladder[j].price
            /\ \A i \in 1..Len(ladder) :
                  /\ FracLeq(FracOfInt(p.min_price), ladder[i].price)
                  /\ FracLeq(ladder[i].price, FracOfInt(p.max_price))
            /\ {ladder[i].price : i \in 1..Len(ladder)} = LadderPrices(s, p)
            /\ ladder = CalculateGridLevels(s, p)

\* A returned ladder with levels on both sides of base_price, one of them at
\* min_price exactly.
C12_Witness ==
    /\ Generation.pc = "returned"
    /\ Len(Generation.queue) >= 4
    /\ Generation.queue[1].price = FracOfInt(Generation.plan.min_price)
    /\ \E i \in 1..Len(Generation.queue) :
          ~FracLeq(Generation.queue[i].price, FracOfInt(Generation.plan.base_price))

\* C13: a level generation with spacing <= 0 fails before it produces a
\* level: it never takes a turn of either loop, so its list stays empty and
\* nothing is persisted.
C13_Original ==
    (Generation.pc # "idle" /\ Generation.strategy.grid_interval_percent <= 0) =>
        /\ Generation.queue = <<>>
        /\ Generation.pc # "returned"
        /\ plans = <<>>

\* The three fund ratios sum to 100 within 0.01.
RatiosSumTo100(s) ==
    Abs(s.small_grid_ratio + s.medium_grid_ratio + s.large_grid_ratio - RatioUnit) <= 1

\* C14: no multi-tier strategy whose fund ratios do not sum to 100 within
\* 0.01 is ever created, and a validation of such a configuration never
\* answers is_valid.
C14_Original ==
    /\ \A i \in 1..Len(strategies) :
          strategies[i].multi_grid => RatiosSumTo100(strategies[i])
    /\ (/\ last.op \in {"validate", "validate_request"}
        /\ last.error = "none"
        /\ last.config_data.strategy_config.multi_grid
        /\ ~RatiosSumTo100(last.config_data.strategy_config))
       => ~last.result.is_valid

\* The capital the pressure test requires of plan p were its
\* max_drawdown_percent d.
RequiredCapital(p, d) ==
    ExecutePressureTest(strategies[plans[p].strategy],
                        [plans[p] EXCEPT !.max_drawdown_percent = d]).total_investment_needed

\* No generated level of plan p carries a negative investment amount.
NoNegativeInvestment(p) ==
    LET level_data == CalculateGridLevels(strategies[plans[p].strategy], plans[p])
    IN  \A i \in 1..Len(level_data) : level_data[i].investment_amount.n >= 0

\* C15 as stated: for every plan and all d1 <= d2, the required capital at d1
\* is at most the required capital at d2.
C15_Original ==
    \A p \in Plans : \A d1 \in Drawdowns, d2 \in Drawdowns :
        d1 <= d2 => FracLeq(RequiredCapital(p, d1), RequiredCapital(p, d2))

\* C15: for every plan none of whose generated levels carries a negative
\* investment amount and all d1 <= d2, the required capital at d1 is at most
\* the required capital at d2; the pressure test answers with the required
\* capital of the plan's own max_drawdown_percent.
C15_CapitalMonotone ==
    /\ \A p \in Plans : NoNegativeInvestment(p) =>
          \A d1 \in Drawdowns, d2 \in Drawdowns :
              d1 <= d2 => FracLeq(RequiredCapital(p, d1), RequiredCapital(p, d2))
    /\ last.op = "pressure_test" =>
          last.result.total_investment_needed
              = RequiredCapital(last.plan_id, plans[last.plan_id].max_drawdown_percent)

\* A pressure test has answered for a plan whose required capital differs
\* between two of the drawdowns.
C15_Witness ==
    /\ last.op = "pressure_test"
    /\ NoNegativeInvestment(last.plan_id)
    /\ \E d1 \in Drawdowns, d2 \in Drawdowns :
          /\ d1 < d2
          /\ RequiredCapital(last.plan_id, d1) # RequiredCapital(last.plan_id, d2)
          /\ plans[last.plan_id].max_drawdown_percent = d2

Validated == last.op \in {"validate", "validate_request"} /\ last.error = "none"

HasError(error) == \E i \in 1..Len(last.result.errors) : last.result.errors[i] = error

\* C16: a validation of a configuration with min_price >= base_price answers
\* is_valid = FALSE with the error of the price order and builds no preview,
\* likewise with max_price <= base_price; and every validation answers
\* is_valid exactly when its error list is empty.
C16_OrderingRejected ==
    Validated =>
        /\ last.result.is_valid <=> last.result.errors = <<>>
        /\ last.config_data.min_price >= last.config_data.base_price =>
              /\ ~last.result.is_valid
              /\ HasError("min_price_not_below_base_price")
              /\ last.result.preview = None
        /\ last.config_data.max_price <= last.config_data.base_price =>
              /\ ~last.result.is_valid
              /\ HasError("max_price_not_above_base_price")
              /\ last.result.preview = None
        /\ last.result.is_valid => last.result.preview # None

\* A configuration with min_price = base_price has been validated.
C16_Witness ==
    /\ Validated
    /\ last.config_data.min_price = last.config_data.base_price
    /\ ~last.result.is_valid

\* C17: a replay of the path generated with volatility 0 and a neutral trend
\* sees base_price on every day and executes no trade.
C17_Original ==
    (/\ last.op = "replay"
     /\ last.params.volatility = 0
     /\ last.params.trend_direction = "neutral")
    => /\ \A day \in 1..Len(last.price_data) :
             last.price_data[day] = last.config_data.base_price
       /\ last.results.total_trades = 0
       /\ last.results.trades = <<>>

\* C18: no call of run_grid_simulation whose run was created raises to its
\* caller; a run that failed carries the message of its exception, and a run
\* is running, completed or failed.
C18_Original ==
    /\ (last.op = "run_grid_simulation" /\ last.simulation # None) => last.error = "none"
    /\ \A i \in 1..Len(simulations) :
          /\ simulations[i].status \in {"running", "completed", "failed"}
          /\ simulations[i].status = "failed" => simulations[i].simulation_results # "{}"

\* C19: a step of a simulation run (the creation of its row, its end, a call
\* that raised) leaves the strategy, plan, level, order and trade pair tables
\* as they were.
C19_SimulationFrame ==
    [][(\/ simulations' # simulations
        \/ requests' # requests
        \/ last'.op = "run_grid_simulation")
       => UNCHANGED <<strategies, plans, levels, orders, pairs>>]_vars

\* A run has just ended beside a plan with orders and a trade pair.
C19_Witness ==
    /\ last.op = "run_grid_simulation"
    /\ Len(simulations) = 1 /\ simulations[1].status = "failed"
    /\ orders # <<>> /\ pairs # <<>>

\* Buy order o, pending before the step, is filled by it without an error.
BuyFilled(o) ==
    /\ orders[o].order_type = "buy"
    /\ orders[o].status = "pending"
    /\ Len(orders') >= o
    /\ orders'[o].status = "filled"
    /\ last'.op = "fill" /\ last'.error = "none"

\* The price the sell order derived from buy order b is to carry.
DerivedSellPrice(b) ==
    LET strategy == strategies[plans[b.grid_plan].strategy]
    IN  IF strategy.multi_grid
        THEN FracOfInt(levels[b.grid_level].sell_price)
        ELSE FracMul(FracOfInt(b.filled_price), OnePlus(strategy.grid_interval_percent))

\* C20: a step that fills a pending buy order adds exactly one order, a
\* pending sell order of the filled quantity, of the buy's level and plan, at
\* filled_price * (1 + spacing) (single-grid) or at the level's sell price
\* (multi-tier), and adds exactly one trade pair, open, of that buy order and
\* without a sell order.
C20_Original ==
    [][\A o \in Orders : BuyFilled(o) =>
          /\ Len(orders') = Len(orders) + 1
          /\ LET sell == orders'[Len(orders')]
                 buy == orders'[o]
             IN  /\ sell.order_type = "sell"
                 /\ sell.status = "pending"
                 /\ sell.quantity = buy.filled_quantity
                 /\ sell.grid_level = buy.grid_level
                 /\ sell.grid_plan = buy.grid_plan
                 /\ FracOfInt(sell.price) = DerivedSellPrice(buy)
          /\ Len(pairs') = Len(pairs) + 1
          /\ LET pair == pairs'[Len(pairs')]
             IN  /\ pair.buy_order = o
                 /\ pair.sell_order = NoOrder
                 /\ ~pair.is_completed]_vars

\* ---- multi-tier ladder

\* Spacing and fund ratio of the tier a level belongs to.
TierPercent(s, grid_type) ==
    CASE grid_type = "small" -> s.small_grid_percent
      [] grid_type = "medium" -> s.medium_grid_percent
      [] OTHER -> s.large_grid_percent

TierRatio(s, grid_type) ==
    CASE grid_type = "small" -> s.small_grid_ratio
      [] grid_type = "medium" -> s.medium_grid_ratio
      [] OTHER -> s.large_grid_ratio

\* The ladders of the multi-tier plans in the tables.
MultiTierPlans ==
    {p \in 1..Len(plans) : strategies[plans[p].strategy].multi_grid}

LadderOf(p) == CalculateGridLevels(strategies[plans[p].strategy], plans[p])

\* A (price, tier type) pair occurs at most once in the ladder, and every
\* level's investment is base_investment * tier ratio / 100.
TierLevelsDistinctAndSized(p) ==
    LET s == strategies[plans[p].strategy]
        ladder == LadderOf(p)
    IN  /\ \A i \in 1..Len(ladder) :
              ladder[i].investment_amount
                  = TierInvestment(plans[p], TierRatio(s, ladder[i].grid_type))
        /\ \A i, j \in 1..Len(ladder) :
              (ladder[i].price = ladder[j].price
               /\ ladder[i].grid_type = ladder[j].grid_type) => i = j

\* C21 as stated: in the ladder of a multi-tier plan every level of every
\* tier, above, at and below base, carries the sell price own price *
\* (1 + tier spacing) and the investment base_investment * tier ratio / 100,
\* and a (price, tier type) pair occurs at most once.
C21_Original ==
    \A p \in MultiTierPlans :
        /\ TierLevelsDistinctAndSized(p)
        /\ \A i \in 1..Len(LadderOf(p)) :
              LET level == LadderOf(p)[i]
              IN  level.sell_price
                      = FracMul(level.price,
                                OnePlus(TierPercent(strategies[plans[p].strategy],
                                                    level.grid_type)))

\* The first level below base of a tier: its price is base_price * (1 - tier
\* spacing).
FirstBelowBase(p, level) ==
    level.price = FracMul(FracOfInt(plans[p].base_price),
                          OneMinus(TierPercent(strategies[plans[p].strategy],
                                               level.grid_type)))

\* C21: in the ladder of a multi-tier plan every level carries the investment
\* base_investment * tier ratio / 100, a (price, tier type) pair occurs at
\* most once, and the sell price is own price * (1 + tier spacing) except for
\* the first level below base of each tier, whose sell price is base_price.
C21_TierLadder ==
    \A p \in MultiTierPlans :
        /\ TierLevelsDistinctAndSized(p)
        /\ \A i \in 1..Len(LadderOf(p)) :
              LET level == LadderOf(p)[i]
              IN  level.sell_price
                      = IF FirstBelowBase(p, level)
                        THEN FracOfInt(plans[p].base_price)
                        ELSE FracMul(level.price,
                                     OnePlus(TierPercent(strategies[plans[p].strategy],
                                                         level.grid_type)))

\* A multi-tier plan whose ladder holds levels of the three tiers and, in
\* the small tier, a level above base, the first level below base and a level
\* further below.
C21_Witness ==
    \E p \in MultiTierPlans :
        /\ \E i \in 1..Len(LadderOf(p)) : LadderOf(p)[i].grid_type = "large"
        /\ \E i \in 1..Len(LadderOf(p)) : LadderOf(p)[i].grid_type = "medium"
        /\ \A grid_type \in {"small"} :
            /\ \E i \in 1..Len(LadderOf(p)) :
                  /\ LadderOf(p)[i].grid_type = grid_type
                  /\ FirstBelowBase(p, LadderOf(p)[i])
            /\ \E i \in 1..Len(LadderOf(p)) :
                  /\ LadderOf(p)[i].grid_type = grid_type
                  /\ ~FracLeq(LadderOf(p)[i].price, FracOfInt(plans[p].base_price))
            /\ \E i \in 1..Len(LadderOf(p)) :
                  /\ LadderOf(p)[i].grid_type = grid_type
                  /\ ~FirstBelowBase(p, LadderOf(p)[i])
                  /\ ~FracLeq(FracOfInt(plans[p].base_price), LadderOf(p)[i].price)

\* ---- progressive sizing

\* base grown n times by percent.
RECURSIVE Grown(_, _, _)
Grown(base, percent, n) ==
    IF n = 0 THEN FracOfInt(base)
    ELSE FracMul(Grown(base, percent, n - 1), Frac(PercentUnit + percent, PercentUnit))

\* The investment of the level at distance k: the start grid counts levels
\* from 1, so the first level sized up has index start_increase_from_grid - 1
\* and a level grows once for each level it lies past that index.
ProgressiveInvestment(base, progressive, start, percent, k) ==
    IF progressive /\ k >= start - 1
    THEN Grown(base, percent, k - (start - 1))
    ELSE FracOfInt(base)

\* What the ladder's level and its mirror level got.
SizedAsStated ==
    last.op = "sized" =>
        /\ last.level_data.investment_amount
               = ProgressiveInvestment(last.base_investment,
                                       last.strategy.progressive_investment,
                                       last.strategy.start_increase_from_grid,
                                       last.strategy.investment_increase_percent,
                                       Abs(last.grid_index))
        /\ \A p \in PlanInputs :
              SingleLevelData(last.strategy,
                              [p EXCEPT !.base_investment = last.base_investment],
                              FracOfInt(p.base_price), 0 - last.grid_index).investment_amount
                  = last.level_data.investment_amount

PreviewExpected ==
    ProgressiveInvestment(last.base_investment,
                          last.strategy_config.progressive_investment,
                          StartIncreaseFrom(last.strategy_config),
                          IncreasePercent(last.strategy_config),
                          last.level_index)

\* C22 as stated: with progressive sizing a level at or beyond the start
\* index has investment base * (1 + increase percent) ^ (levels past the start
\* index), a level before it has base, and the levels at +k and -k get the
\* same investment, in the ladder and in the preview alike.
C22_Original ==
    /\ SizedAsStated
    /\ (last.op = "preview_sized" /\ last.error = "none") =>
           FracOfInt(last.investment_amount) = PreviewExpected

\* C22: the ladder's level at distance k has exactly that investment and so
\* has its mirror level; the preview's level has that investment rounded to
\* 0.01.
C22_ProgressiveSizing ==
    /\ SizedAsStated
    /\ (last.op = "preview_sized" /\ last.error = "none") =>
           last.investment_amount = RoundHalfEven(PreviewExpected)

\* A level below base, past the start index of a progressive strategy, sized
\* above the base investment.
C22_Witness ==
    /\ last.op = "sized"
    /\ last.strategy.progressive_investment
    /\ last.grid_index < 0
    /\ Abs(last.grid_index) > last.strategy.start_increase_from_grid
    /\ ~FracLeq(last.level_data.investment_amount, FracOfInt(last.base_investment))

\* ---- pairs and their orders

\* The orders of a pair: its buy order and, when attached, its sell order.
OrdersOfPair(t) ==
    {pairs[t].buy_order, pairs[t].sell_order} \ {NoOrder}

\* C23 as stated: in every reachable state, for each trade pair with a sell
\* order attached, the sell order and the buy order belong to the pair's plan
\* and to one level, the sell order's quantity is the buy order's filled
\* quantity, and no order appears in more than one trade pair.
C23_Original ==
    /\ \A t \in Pairs :
          pairs[t].sell_order # NoOrder =>
              LET buy == orders[pairs[t].buy_order]
                  sell == orders[pairs[t].sell_order]
              IN  /\ buy.order_type = "buy" /\ sell.order_type = "sell"
                  /\ sell.grid_plan = buy.grid_plan
                  /\ pairs[t].grid_plan = buy.grid_plan
                  /\ sell.grid_level = buy.grid_level
                  /\ sell.quantity = buy.filled_quantity
    /\ \A t, u \in Pairs : t # u => OrdersOfPair(t) \cap OrdersOfPair(u) = {}

\* ---- plan counters

\* The filled orders of plan p, and the filled buy orders among them.
FilledOrdersOf(p) ==
    {o \in Orders : orders[o].grid_plan = p /\ orders[o].status = "filled"}

FilledBuysOf(p) == {o \in FilledOrdersOf(p) : orders[o].order_type = "buy"}

RECURSIVE SumFilledAmount(_)
SumFilledAmount(S) ==
    IF S = {} THEN 0
    ELSE LET o == CHOOSE x \in S : TRUE
         IN  orders[o].filled_amount + SumFilledAmount(S \ {o})

\* total_trades = buy_trades + sell_trades = the number of filled orders, and
\* buy_trades = the number of filled buy orders.
CountersTrackFills(p) ==
    /\ plans[p].total_trades = plans[p].buy_trades + plans[p].sell_trades
    /\ plans[p].total_trades = Cardinality(FilledOrdersOf(p))
    /\ plans[p].buy_trades = Cardinality(FilledBuysOf(p))

\* C24 as stated: after any sequence of trigger, fill and cancel operations
\* the plan's counters count its filled orders and total_invested equals the
\* sum of filled_amount over its filled buy orders.
C24_Original ==
    \A p \in Plans :
        /\ CountersTrackFills(p)
        /\ plans[p].total_invested = SumFilledAmount(FilledBuysOf(p))

\* C24: the counters count the filled orders exactly; total_invested equals
\* the sum of filled_amount over the filled buy orders to within 0.01 for each
\* filled buy after the first.
C24_CountersTrackFills ==
    \A p \in Plans :
        /\ CountersTrackFills(p)
        /\ FilledBuysOf(p) = {} => plans[p].total_invested = 0
        /\ FilledBuysOf(p) # {} =>
              Abs(plans[p].total_invested - SumFilledAmount(FilledBuysOf(p)))
                  <= Cardinality(FilledBuysOf(p)) - 1

\* Two buy fills and a sell fill are counted, after a cancellation.
C24_Witness ==
    \E p \in Plans :
        /\ plans[p].buy_trades = 2
        /\ plans[p].sell_trades = 1
        /\ plans[p].total_invested > 0
        /\ \E o \in Orders : orders[o].grid_plan = p /\ orders[o].status = "cancelled"

\* ---- replay against the order lifecycle

\* The replay's buy levels as a table of untriggered GridLevel rows of plan 1,
\* the lowest price first.
RECURSIVE AsLevelTable(_)
AsLevelTable(buy_levels) ==
    IF buy_levels = {} THEN <<>>
    ELSE LET l == CHOOSE x \in buy_levels : \A y \in buy_levels : FracLeq(x.price, y.price)
         IN  <<[grid_plan |-> 1, price |-> RoundHalfEven(l.price),
                investment_amount |-> RoundHalfEven(l.investment_amount),
                is_triggered |-> FALSE, level |-> l]>>
             \o AsLevelTable(buy_levels \ {l})

\* The levels the day's buy step executed: those it removed from buy_levels.
ExecutedBuys == Simulating.before.buy_levels \ Simulating.st.buy_levels

RECURSIVE SumQuantity(_, _)
SumQuantity(buy_levels, current_price) ==
    IF buy_levels = {} THEN FracOfInt(0)
    ELSE LET l == CHOOSE x \in buy_levels : TRUE
         IN  FracAdd(FracMul(l.investment_amount, Frac(100, current_price)),
                     SumQuantity(buy_levels \ {l}, current_price))

\* C25 as stated: on each simulated day the set of untriggered buy levels
\* the replay executes equals the set TriggerLevels selects among them for
\* the day's price (the levels whose price <= the day's price), and each is
\* bought with investment / price shares.
C25_Original ==
    (Simulating.op = "simulate" /\ Simulating.pc = "sells") =>
        LET current_price == Simulating.price_data[Simulating.day]
            table == AsLevelTable(Simulating.before.buy_levels)
            selected == LevelsToTrigger([levels |-> table], 1, current_price)
        IN  /\ ExecutedBuys = {table[i].level : i \in selected}
            /\ FracSub(Simulating.st.position, Simulating.before.position)
                   = SumQuantity(ExecutedBuys, current_price)

\* ---- stopped plans

\* C26 as stated: in every state in which a plan is stopped, also after later
\* trigger and fill requests, no order of the plan is pending.
C26_Original ==
    \A p \in Plans :
        plans[p].status = "stopped" =>
            \A o \in Orders : orders[o].grid_plan = p => orders[o].status # "pending"

\* ---- plan profit

\* The completed pairs of plan p and the sum of their stored profit_amount.
CompletedPairsOf(p) == {t \in Pairs : pairs[t].grid_plan = p /\ pairs[t].is_completed}

RECURSIVE SumOfProfits(_)
SumOfProfits(S) ==
    IF S = {} THEN 0
    ELSE LET t == CHOOSE x \in S : TRUE
         IN  pairs[t].profit_amount + SumOfProfits(S \ {t})

\* C27 as stated: after any sequence of fills the plan's realized_profit and
\* total_profit both equal the sum of profit_amount over its completed pairs,
\* which is the realized_profit the performance computation returns.
C27_Original ==
    \A p \in Plans, current_price \in TriggerPrices :
        /\ plans[p].realized_profit = plans[p].total_profit
        /\ plans[p].realized_profit = SumOfProfits(CompletedPairsOf(p))
        /\ CalculatePlanPerformance(DB, p, current_price).realized_profit
               = plans[p].realized_profit

\* C27: the plan's realized_profit equals its total_profit; the performance
\* computation returns the sum of profit_amount over the completed pairs; the
\* plan's aggregate equals that sum to within 0.01 for each completed pair
\* after the first.
C27_AggregateAgrees ==
    \A p \in Plans, current_price \in TriggerPrices :
        /\ plans[p].realized_profit = plans[p].total_profit
        /\ CalculatePlanPerformance(DB, p, current_price).realized_profit
               = SumOfProfits(CompletedPairsOf(p))
        /\ CompletedPairsOf(p) = {} => plans[p].realized_profit = 0
        /\ CompletedPairsOf(p) # {} =>
              Abs(plans[p].realized_profit - SumOfProfits(CompletedPairsOf(p)))
                  <= Cardinality(CompletedPairsOf(p)) - 1

\* Two completed pairs, one closed at a loss, with a realized profit.
C27_Witness ==
    \E p \in Plans :
        /\ Cardinality(CompletedPairsOf(p)) = 2
        /\ \E t \in CompletedPairsOf(p) : pairs[t].profit_amount < 0
        /\ plans[p].realized_profit > 0

\* ---- replay cash and position

\* C28 as stated: at every step of the replay the simulated cash is >= 0,
\* also after a day on which several buy levels trigger at once.
C28_Original ==
    Simulating.op = "simulate" => FracLeq(FracOfInt(0), Simulating.st.cash)

RECURSIVE SumOpenQuantity(_)
SumOpenQuantity(sell_levels) ==
    IF sell_levels = {} THEN FracOfInt(0)
    ELSE LET l == CHOOSE x \in sell_levels : TRUE
         IN  FracAdd(l.quantity, SumOpenQuantity(sell_levels \ {l}))

\* C29 as stated: after every simulated day the position equals the sum of
\* the quantities of the open sell levels, and the buy levels and the open
\* sell levels together are as many as the buy levels the replay started
\* with, also when two buys execute on one day at one price.
C29_Original ==
    (Simulating.op = "simulate" /\ Simulating.pc \in {"buys", "returned"}) =>
        /\ Simulating.st.position = SumOpenQuantity(Simulating.st.sell_levels)
        /\ Cardinality(Simulating.st.buy_levels) + Cardinality(Simulating.st.sell_levels)
               = Cardinality(ReplayStart(Simulating.config_data).buy_levels)

\* ---- strategy schema

\* The request's payload supplies the three fund ratios of a multi-tier
\* strategy and they sum to 100 within 0.01.
SuppliesRatiosSummingTo100 ==
    /\ last.op \in {"create_strategy", "update_strategy"}
    /\ last.payload.multi_grid
    /\ \A i \in 1..Len(RatioFields) : RatioFields[i] \in DOMAIN last.payload
    /\ RatiosSumTo100(last.payload)

\* C30 as stated: a multi-tier strategy whose three explicitly supplied fund
\* ratios sum to 100 within 0.01 passes the schema's ratio validation.
C30_Original ==
    SuppliesRatiosSummingTo100 => last.error = "none"

====
